---------------------------- MODULE Spec2Model ----------------------------
(***************************************************************************)
(* NAP (Name, Address, Phone) normalization and matching of the local-SEO  *)
(* analysis tool: normalizeName, normalizeAddress, normalizePhone,         *)
(* parseAddress, normalizeNAP, compareNAP and the Levenshtein helpers of   *)
(* src/src/App.tsx (duplicated verbatim in src/api/get-analysis.ts).       *)
(*                                                                         *)
(* A JavaScript string is a sequence of one-character strings.  The        *)
(* regular expressions of the source are data (sequences of pattern        *)
(* elements) interpreted by MatchAt, a backtracking matcher with the       *)
(* priorities of the JavaScript engine: alternatives left to right, greedy *)
(* quantifiers longest first.                                              *)
(***************************************************************************)
EXTENDS Integers, Sequences, FiniteSets, TLC

VARIABLES
    source,      \* the first argument of the call: a NAPData record for compareNAP,
                 \* a string for levenshteinSimilarity
    target,      \* the second argument of the call, likewise
    normSource,  \* compareNAP's local normSource (NoValue before the call)
    normTarget,  \* compareNAP's local normTarget (NoValue before the call)
    result,      \* what the call returned (NoValue before the call)
    pc,          \* "input" while the caller composes the records, "done" after the call
    script,      \* the digits the caller is going to type as the phone number
    step,        \* how many composing steps the caller has made
    calls,       \* the finished compareNAP calls, oldest first: arguments and result
    results,     \* the promises handed to Promise.all / Promise.allSettled, by name:
                 \* pending, or settled with a value after the response noted
    retries,     \* callGeminiApi's parameter retries in the running call
    delay,       \* callGeminiApi's parameter delay in the running call
    log          \* the requests sent and the waits made so far, oldest first

\* the variables of the services around compareNAP
serviceVars == <<results, retries, delay, log>>

\* the variables of a compareNAP call other than its first argument and result
compareVars == <<target, normSource, normTarget, script, step, calls>>

vars == <<source, target, normSource, normTarget, result, pc, script, step, calls,
          results, retries, delay, log>>

-----------------------------------------------------------------------------
(* Characters and character classes of the regular expressions.            *)

UpperLetters == <<"A","B","C","D","E","F","G","H","I","J","K","L","M",
                  "N","O","P","Q","R","S","T","U","V","W","X","Y","Z">>

LowerLetters == <<"a","b","c","d","e","f","g","h","i","j","k","l","m",
                  "n","o","p","q","r","s","t","u","v","w","x","y","z">>

UpperClass == {UpperLetters[i] : i \in 1..26}

LowerClass == {LowerLetters[i] : i \in 1..26}

DigitClass == {"0","1","2","3","4","5","6","7","8","9"}

\* \w of a regular expression without the u flag: [A-Za-z0-9_]
WordClass == UpperClass \cup LowerClass \cup DigitClass \cup {"_"}

\* \s, restricted to the white space the inputs of this model contain
SpaceClass == {" "}

\* [a-z0-9]
LowerAlnumClass == LowerClass \cup DigitClass

\* [a-z0-9-] under the i flag
UnitTokenClass == LowerClass \cup UpperClass \cup DigitClass \cup {"-"}

LowerOf == [c \in UpperClass |-> LowerLetters[CHOOSE i \in 1..26 : UpperLetters[i] = c]]

UpperOf == [c \in LowerClass |-> UpperLetters[CHOOSE i \in 1..26 : LowerLetters[i] = c]]

\* Characters outside ASCII are written by their code point (a module is ASCII
\* text); each is one character of a string.
\* U+00DF, the sharp s
SharpS == "U+00DF"

\* U+0130, the capital I with a dot above
CapitalIDot == "U+0130"

\* U+0131, the small dotless i
DotlessI == "U+0131"

\* U+0307, the combining dot above
CombiningDot == "U+0307"

\* the lower case of one character: one character, except for U+0130 whose
\* lower case is "i" followed by U+0307
LowerOfChar(c) ==
    IF c \in UpperClass THEN <<LowerOf[c]>>
    ELSE IF c = CapitalIDot THEN <<"i", CombiningDot>>
    ELSE <<c>>

\* the upper case of one character: one character, except for U+00DF whose
\* upper case is "SS"; the upper case of U+0131 is "I"
UpperOfChar(c) ==
    IF c \in LowerClass THEN <<UpperOf[c]>>
    ELSE IF c = SharpS THEN <<"S", "S">>
    ELSE IF c = DotlessI THEN <<"I">>
    ELSE <<c>>

RECURSIVE LowerEach(_)

LowerEach(s) == IF s = <<>> THEN <<>> ELSE LowerOfChar(Head(s)) \o LowerEach(Tail(s))

RECURSIVE UpperEach(_)

UpperEach(s) == IF s = <<>> THEN <<>> ELSE UpperOfChar(Head(s)) \o UpperEach(Tail(s))

\* String.prototype.toLowerCase on the strings of this model
toLowerCase(s) ==
    IF \A i \in 1..Len(s) : s[i] # CapitalIDot
    THEN [i \in 1..Len(s) |-> IF s[i] \in UpperClass THEN LowerOf[s[i]] ELSE s[i]]
    ELSE LowerEach(s)

\* String.prototype.toUpperCase on the strings of this model
toUpperCase(s) ==
    IF \A i \in 1..Len(s) : s[i] \notin {SharpS, DotlessI}
    THEN [i \in 1..Len(s) |-> IF s[i] \in LowerClass THEN UpperOf[s[i]] ELSE s[i]]
    ELSE UpperEach(s)

\* str.replace(/[^class]/g, ''): keep the characters of the class
KeepOnly(s, class) == SelectSeq(s, LAMBDA c : c \in class)

\* includes, were the empty needle taken to occur nowhere
includesNonEmpty(hay, needle) ==
    /\ needle # <<>>
    /\ \E i \in 1..(Len(hay) - Len(needle) + 1) :
           \A j \in 1..Len(needle) : hay[i + j - 1] = needle[j]

\* String.prototype.includes: needle occurs in hay as a contiguous substring
includes(hay, needle) ==
    \E i \in 1..(Len(hay) - Len(needle) + 1) :
        \A j \in 1..Len(needle) : hay[i + j - 1] = needle[j]

\* String.prototype.trim
trim(s) ==
    LET keep == {i \in 1..Len(s) : s[i] \notin SpaceClass}
    IN  IF keep = {} THEN <<>>
        ELSE LET lo == CHOOSE i \in keep : \A j \in keep : i <= j
                 hi == CHOOSE i \in keep : \A j \in keep : i >= j
             IN  SubSeq(s, lo, hi)

RECURSIVE split(_, _)
\* String.prototype.split(sep) for a one-character separator: never empty
split(s, sep) ==
    LET at == {i \in 1..Len(s) : s[i] = sep}
    IN  IF at = {} THEN <<s>>
        ELSE LET i == CHOOSE k \in at : \A j \in at : k <= j
             IN  <<SubSeq(s, 1, i - 1)>> \o split(SubSeq(s, i + 1, Len(s)), sep)

-----------------------------------------------------------------------------
(* Regular expressions.  A pattern is a sequence of elements:              *)
(*   Bnd            \b                                                     *)
(*   Lit(w)         the characters of w, literally                         *)
(*   AnyChar        .                                                      *)
(*   Alt(ws)        (w1|w2|...), literal alternatives tried left to right  *)
(*   Rep(c, lo, hi) [c]{lo,hi}, greedy                                     *)
(*   Opt(p)         (?:p)?, greedy                                         *)

Bnd == [t |-> "bnd"]

Lit(w) == [t |-> "lit", w |-> w]

AnyChar == [t |-> "any"]

Alt(ws) == [t |-> "alt", ws |-> ws]

Rep(class, lo, hi) == [t |-> "rep", class |-> class, lo |-> lo, hi |-> hi]

Opt(p) == [t |-> "opt", p |-> p]

\* the quantifiers * and + have no upper limit: no string of the model is longer
Unlimited == 1000

\* \b holds between s[i-1] and s[i] when exactly one of them is a word character
IsWordBoundary(s, i) ==
    (i > 1 /\ s[i - 1] \in WordClass) # (i <= Len(s) /\ s[i] \in WordClass)

HasPrefixAt(s, i, w) ==
    /\ i + Len(w) - 1 <= Len(s)
    /\ \A j \in 1..Len(w) : s[i + j - 1] = w[j]

\* how many characters of the class follow from position i, at most hi
RunLength(s, i, class, hi) ==
    LET stops == {j \in i..Len(s) : s[j] \notin class}
        run == IF stops = {} THEN Len(s) - i + 1
               ELSE (CHOOSE j \in stops : \A k \in stops : j <= k) - i
    IN  IF run > hi THEN hi ELSE run

RECURSIVE MatchAt(_, _, _, _)
RECURSIVE MatchAlt(_, _, _, _, _)
RECURSIVE MatchRep(_, _, _, _, _)

\* The position after the match of pat[k..] that starts at position i of s,
\* or 0 when there is none (the first match in the engine's backtracking order).
MatchAt(pat, k, s, i) ==
    IF k > Len(pat) THEN i
    ELSE LET e == pat[k] IN
         CASE e.t = "bnd" -> IF IsWordBoundary(s, i) THEN MatchAt(pat, k + 1, s, i) ELSE 0
           [] e.t = "lit" -> IF HasPrefixAt(s, i, e.w)
                             THEN MatchAt(pat, k + 1, s, i + Len(e.w)) ELSE 0
           [] e.t = "any" -> IF i <= Len(s) THEN MatchAt(pat, k + 1, s, i + 1) ELSE 0
           [] e.t = "alt" -> MatchAlt(pat, k, s, i, 1)
           [] e.t = "rep" -> LET n == RunLength(s, i, e.class, e.hi)
                             IN  IF n < e.lo THEN 0 ELSE MatchRep(pat, k, s, i, n)
           [] e.t = "opt" -> LET m == MatchAt(e.p \o SubSeq(pat, k + 1, Len(pat)), 1, s, i)
                             IN  IF m # 0 THEN m ELSE MatchAt(pat, k + 1, s, i)

MatchAlt(pat, k, s, i, a) ==
    IF a > Len(pat[k].ws) THEN 0
    ELSE LET w == pat[k].ws[a]
             m == IF HasPrefixAt(s, i, w) THEN MatchAt(pat, k + 1, s, i + Len(w)) ELSE 0
         IN  IF m # 0 THEN m ELSE MatchAlt(pat, k, s, i, a + 1)

MatchRep(pat, k, s, i, n) ==
    LET m == MatchAt(pat, k + 1, s, i + n)
    IN  IF m # 0 THEN m
        ELSE IF n > pat[k].lo THEN MatchRep(pat, k, s, i, n - 1) ELSE 0

RECURSIVE ReplaceFrom(_, _, _, _)
\* str.replace(/pat/g, repl) from position i on: the leftmost match at or after
\* i is replaced and the search goes on behind it (no pattern of this module
\* matches the empty string)
ReplaceFrom(pat, repl, s, i) ==
    LET starts == {j \in i..Len(s) : MatchAt(pat, 1, s, j) > j}
    IN  IF starts = {} THEN SubSeq(s, i, Len(s))
        ELSE LET j == CHOOSE k \in starts : \A l \in starts : k <= l
             IN  SubSeq(s, i, j - 1) \o repl \o ReplaceFrom(pat, repl, s, MatchAt(pat, 1, s, j))

ReplaceAll(pat, repl, s) == ReplaceFrom(pat, repl, s, 1)

-----------------------------------------------------------------------------
(* normalizeName                                                           *)

\* the alternatives of /\b(llc|inc|incorporated|ltd|limited|co|company)\b\.?/gi
NameSuffixWords ==
    <<<<"l","l","c">>,
      <<"i","n","c">>,
      <<"i","n","c","o","r","p","o","r","a","t","e","d">>,
      <<"l","t","d">>,
      <<"l","i","m","i","t","e","d">>,
      <<"c","o">>,
      <<"c","o","m","p","a","n","y">>>>

\* the alternatives of /\b(the|a|an)\b/g
ArticleWords ==
    <<<<"t","h","e">>,
      <<"a">>,
      <<"a","n">>>>

\* /\b(llc|inc|incorporated|ltd|limited|co|company)\b\.?/gi; the i flag changes
\* nothing, the string was lowercased before
NameSuffixPattern == <<Bnd, Alt(NameSuffixWords), Bnd, Rep({"."}, 0, 1)>>

\* /\b(the|a|an)\b/g
ArticlePattern == <<Bnd, Alt(ArticleWords), Bnd>>

\* variant: combining marks are kept with the letters
normalizeNameKeepMarks(name) ==
    LET lowered == toLowerCase(name)
        noSuffix == ReplaceAll(NameSuffixPattern, <<>>, lowered)
        noArticle == ReplaceAll(ArticlePattern, <<>>, noSuffix)
    IN  trim(KeepOnly(noArticle, LowerAlnumClass \cup {CombiningDot}))

normalizeName(name) ==
    LET lowered == toLowerCase(name)
        noSuffix == ReplaceAll(NameSuffixPattern, <<>>, lowered)
        noArticle == ReplaceAll(ArticlePattern, <<>>, noSuffix)
    IN  trim(KeepOnly(noArticle, LowerAlnumClass))

-----------------------------------------------------------------------------
(* normalizeAddress                                                        *)

\* the abbreviations object, in insertion order (the order of Object.entries)
abbreviations ==
    <<
       <<<<"s","t","r","e","e","t">>, <<"s","t">>>>,
       <<<<"s","t",".">>, <<"s","t">>>>,
       <<<<"a","v","e","n","u","e">>, <<"a","v","e">>>>,
       <<<<"a","v","e",".">>, <<"a","v","e">>>>,
       <<<<"b","o","u","l","e","v","a","r","d">>, <<"b","l","v","d">>>>,
       <<<<"b","l","v","d",".">>, <<"b","l","v","d">>>>,
       <<<<"r","o","a","d">>, <<"r","d">>>>,
       <<<<"r","d",".">>, <<"r","d">>>>,
       <<<<"d","r","i","v","e">>, <<"d","r">>>>,
       <<<<"d","r",".">>, <<"d","r">>>>,
       <<<<"l","a","n","e">>, <<"l","n">>>>,
       <<<<"l","n",".">>, <<"l","n">>>>,
       <<<<"c","o","u","r","t">>, <<"c","t">>>>,
       <<<<"c","t",".">>, <<"c","t">>>>,
       <<<<"c","i","r","c","l","e">>, <<"c","i","r">>>>,
       <<<<"c","i","r",".">>, <<"c","i","r">>>>,
       <<<<"p","l","a","c","e">>, <<"p","l">>>>,
       <<<<"p","l",".">>, <<"p","l">>>>,
       <<<<"s","u","i","t","e">>, <<"s","t","e">>>>,
       <<<<"s","t","e",".">>, <<"s","t","e">>>>,
       <<<<"#">>, <<"s","t","e">>>>,
       <<<<"a","p","a","r","t","m","e","n","t">>, <<"a","p","t">>>>,
       <<<<"a","p","t",".">>, <<"a","p","t">>>>,
       <<<<"b","u","i","l","d","i","n","g">>, <<"b","l","d","g">>>>,
       <<<<"b","l","d","g",".">>, <<"b","l","d","g">>>>,
       <<<<"f","l","o","o","r">>, <<"f","l">>>>,
       <<<<"f","l",".">>, <<"f","l">>>>,
       <<<<"n","o","r","t","h">>, <<"n">>>>,
       <<<<"s","o","u","t","h">>, <<"s">>>>,
       <<<<"e","a","s","t">>, <<"e">>>>,
       <<<<"w","e","s","t">>, <<"w">>>>
    >>

\* new RegExp(`\\b${long}\\b`, 'gi'): the key is the source of the expression, so
\* the "." of a key such as "st." is the wildcard, not a literal period
AbbreviationPattern(long) ==
    <<Bnd>> \o [i \in 1..Len(long) |-> IF long[i] = "." THEN AnyChar ELSE Lit(<<long[i]>>)]
            \o <<Bnd>>

RECURSIVE ApplyAbbreviations(_, _)
\* the for loop over Object.entries(abbreviations), from entry k on
ApplyAbbreviations(s, k) ==
    IF k > Len(abbreviations) THEN s
    ELSE LET replaced == ReplaceAll(AbbreviationPattern(abbreviations[k][1]),
                                    abbreviations[k][2], s)
         IN  IF Len(replaced) >= 0 THEN ApplyAbbreviations(replaced, k + 1) ELSE s

\* the alternatives of /\b(ste|suite|apt|apartment|unit|#)\s*[a-z0-9-]+\b/gi
UnitWords ==
    <<<<"s","t","e">>,
      <<"s","u","i","t","e">>,
      <<"a","p","t">>,
      <<"a","p","a","r","t","m","e","n","t">>,
      <<"u","n","i","t">>,
      <<"#">>>>

\* /\b(ste|suite|apt|apartment|unit|#)\s*[a-z0-9-]+\b/gi
UnitPattern ==
    <<Bnd, Alt(UnitWords), Rep(SpaceClass, 0, Unlimited), Rep(UnitTokenClass, 1, Unlimited), Bnd>>

normalizeAddress(address) ==
    LET lowered == toLowerCase(address)
        abbreviated == ApplyAbbreviations(lowered, 1)
        noUnit == ReplaceAll(UnitPattern, <<>>, abbreviated)
    IN  KeepOnly(noUnit, LowerAlnumClass)

-----------------------------------------------------------------------------
(* normalizePhone                                                          *)

\* the length of a US number without its country code
PhoneDigits == 10

\* normalizePhone without the cut to 10 digits
normalizePhoneNoTruncate(phone) ==
    IF phone = <<>> THEN <<>>
    ELSE LET digits == KeepOnly(phone, DigitClass)
         IN  IF Len(digits) = PhoneDigits + 1 /\ digits[1] = "1"
             THEN SubSeq(digits, 2, Len(digits))
             ELSE digits

\* normalizePhone without the removal of the country code
normalizePhoneKeepCountry(phone) ==
    IF phone = <<>> THEN <<>>
    ELSE LET digits == KeepOnly(phone, DigitClass)
         IN  IF Len(digits) > PhoneDigits THEN SubSeq(digits, 1, PhoneDigits) ELSE digits

normalizePhone(phone) ==
    IF phone = <<>> THEN <<>>
    ELSE LET digits == KeepOnly(phone, DigitClass)
             noCountry == IF Len(digits) = PhoneDigits + 1 /\ digits[1] = "1"
                          THEN SubSeq(digits, 2, Len(digits))
                          ELSE digits
         IN  IF Len(noCountry) > PhoneDigits THEN SubSeq(noCountry, 1, PhoneDigits)
             ELSE noCountry

-----------------------------------------------------------------------------
(* parseAddress and normalizeNAP                                           *)

\* variant: a ZIP of five digits only, \d{5}
ZipPatternFiveOnly == <<Rep(DigitClass, 5, 5)>>

\* (\d{5}(?:-\d{4})?), the second group of the state/ZIP expression
ZipPattern == <<Rep(DigitClass, 5, 5), Opt(<<Lit(<<"-">>), Rep(DigitClass, 4, 4)>>)>>

\* /([A-Z]{2})\s*(\d{5}(?:-\d{4})?)?/
StateZipPattern ==
    <<Rep(UpperClass, 2, 2), Rep(SpaceClass, 0, Unlimited), Opt(ZipPattern)>>

\* the value undefined: an absent optional field (phone?: string), an array
\* element past the end; no string of characters equals it
Undefined == <<"undefined">>

\* what a call leaves that threw a TypeError (a method called on undefined)
TypeError == [thrown |-> "TypeError"]

IsThrown(value) == "thrown" \in DOMAIN value

\* variant: parts[k] without the fallback to the empty string
PartOrUndefined(parts, k) == IF k + 1 <= Len(parts) THEN parts[k + 1] ELSE Undefined

\* parts[k] || '' with k counted from 0
PartOrEmpty(parts, k) == IF k + 1 <= Len(parts) THEN parts[k + 1] ELSE <<>>

\* stateZip.match(...): groups 1 and 2 of the leftmost match, '' for a group that
\* did not take part and for no match at all
StateZipGroups(stateZip) ==
    LET starts == {i \in 1..Len(stateZip) : MatchAt(StateZipPattern, 1, stateZip, i) # 0}
    IN  IF starts = {} THEN [state |-> <<>>, zip |-> <<>>]
        ELSE LET i == CHOOSE k \in starts : \A j \in starts : k <= j
                 z == i + 2 + RunLength(stateZip, i + 2, SpaceClass, Unlimited)
                 zEnd == MatchAt(ZipPattern, 1, stateZip, z)
             IN  [state |-> SubSeq(stateZip, i, i + 1),
                  zip   |-> IF zEnd # 0 THEN SubSeq(stateZip, z, zEnd - 1) ELSE <<>>]

\* stateZip.match throws when stateZip is undefined
parseAddress(fullAddress) ==
    LET raw == split(fullAddress, ",")
        parts == [k \in 1..Len(raw) |-> trim(raw[k])]
        stateZip == PartOrEmpty(parts, 2)
        groups == StateZipGroups(stateZip)
    IN  IF stateZip = Undefined THEN TypeError
        ELSE [street |-> PartOrEmpty(parts, 0),
              city   |-> PartOrEmpty(parts, 1),
              state  |-> groups.state,
              zip    |-> groups.zip]

\* a throw of parseAddress goes through; street.toLowerCase (in
\* normalizeAddress) and city.toLowerCase throw when the component is undefined
normalizeNAP(nap) ==
    LET parsed == parseAddress(nap.address)
    IN  IF IsThrown(parsed) THEN TypeError
        ELSE IF parsed.street = Undefined \/ parsed.city = Undefined THEN TypeError
        ELSE [name    |-> normalizeName(nap.name),
              address |-> normalizeAddress(nap.address),
              phone   |-> normalizePhone(IF nap.phone = Undefined THEN <<>> ELSE nap.phone),
              street  |-> normalizeAddress(parsed.street),
              city    |-> KeepOnly(toLowerCase(parsed.city), LowerClass),
              state   |-> toUpperCase(parsed.state),
              zip     |-> KeepOnly(parsed.zip, DigitClass)]

-----------------------------------------------------------------------------
(* levenshteinDistance and levenshteinSimilarity                           *)

Min3(a, b, c) == IF a <= b /\ a <= c THEN a ELSE IF b <= c THEN b ELSE c

RECURSIVE MatrixRow(_, _, _, _, _)
\* Row i of the matrix, from column j on: cur holds matrix[i][0..j-1] and prev is
\* matrix[i-1]; sequences are indexed from 1, so column j is element j + 1.
MatrixRow(str1, str2, i, prev, cur) ==
    LET j == Len(cur)
    IN  IF j > Len(str1) THEN cur
        ELSE MatrixRow(str1, str2, i, prev,
                 Append(cur, IF str2[i] = str1[j] THEN prev[j]
                             ELSE Min3(prev[j] + 1, cur[j] + 1, prev[j + 1] + 1)))

RECURSIVE MatrixRows(_, _, _, _)
\* the last row of the matrix, given row i - 1
MatrixRows(str1, str2, i, prev) ==
    IF i > Len(str2) THEN prev
    ELSE LET row == MatrixRow(str1, str2, i, prev, <<i>>)
         IN  IF Len(row) >= 0 THEN MatrixRows(str1, str2, i + 1, row) ELSE prev

levenshteinDistance(str1, str2) ==
    MatrixRows(str1, str2, 1, [j \in 1..(Len(str1) + 1) |-> j - 1])[Len(str1) + 1]

\* A JavaScript number that is a ratio of two integers, kept exact.
Ratio(num, den) == [num |-> num, den |-> den]

\* variant: the distance is divided by the length of the first string
levenshteinSimilarityOfFirst(str1, str2) ==
    IF Len(str1) = 0 THEN Ratio(1, 1)
    ELSE Ratio(Len(str1) - levenshteinDistance(str1, str2), Len(str1))

levenshteinSimilarity(str1, str2) ==
    LET longer  == IF Len(str1) > Len(str2) THEN str1 ELSE str2
        shorter == IF Len(str1) > Len(str2) THEN str2 ELSE str1
    IN  IF Len(longer) = 0 THEN Ratio(1, 1)
        ELSE Ratio(Len(longer) - levenshteinDistance(longer, shorter), Len(longer))

-----------------------------------------------------------------------------
(* compareNAP                                                              *)

\* a > b for two ratios with positive denominators.  The source compares the
\* double (longer.length - editDistance) / longer.length with the literal 0.8;
\* the division is correctly rounded, so for lengths far below 2^53 it orders
\* the same way as the exact ratios.
GreaterThan(a, b) == a.num * b.den > b.num * a.den

\* nameMatch with >= 0.8 in place of > 0.8
nameMatchAtLeast(normS, normT) ==
    \/ includes(normS.name, normT.name)
    \/ includes(normT.name, normS.name)
    \/ ~GreaterThan(Ratio(8, 10), levenshteinSimilarity(normS.name, normT.name))

\* variant: only the source name may contain the target name
nameMatchSourceContains(normS, normT) ==
    \/ includes(normS.name, normT.name)
    \/ GreaterThan(levenshteinSimilarity(normS.name, normT.name), Ratio(8, 10))

nameMatch(normS, normT) ==
    \/ includes(normS.name, normT.name)
    \/ includes(normT.name, normS.name)
    \/ GreaterThan(levenshteinSimilarity(normS.name, normT.name), Ratio(8, 10))

\* streetMatch without the two containment tests
streetMatchExact(normS, normT) == normS.street = normT.street

streetMatch(normS, normT) ==
    \/ normS.street = normT.street
    \/ includes(normS.street, normT.street)
    \/ includes(normT.street, normS.street)

\* cityMatch by containment, as the streets are matched
cityMatchContains(normS, normT) ==
    includes(normS.city, normT.city) \/ includes(normT.city, normS.city)

cityMatch(normS, normT) == normS.city = normT.city

\* zipMatch with a missing ZIP counted as a difference
zipMatchStrict(normS, normT) == normS.zip = normT.zip /\ normS.zip # <<>>

\* variant: only a missing source ZIP is tolerated
zipMatchSourceOptional(normS, normT) == normS.zip = normT.zip \/ normS.zip = <<>>

zipMatch(normS, normT) ==
    normS.zip = normT.zip \/ normS.zip = <<>> \/ normT.zip = <<>>

\* variant: the ZIP is not looked at
addressMatchStreetAndCity(normS, normT) ==
    streetMatch(normS, normT) /\ cityMatch(normS, normT)

addressMatch(normS, normT) ==
    streetMatch(normS, normT) /\ cityMatch(normS, normT) /\ zipMatch(normS, normT)

phoneMatch(normS, normT) ==
    normS.phone = normT.phone \/ normS.phone = <<>> \/ normT.phone = <<>>

\* variant: the 10 of the phone is added whenever phoneMatch is true
confidenceAnyPhoneMatch(normS, normT) ==
    (IF nameMatch(normS, normT) THEN 40 ELSE 0)
    + (IF addressMatch(normS, normT) THEN 50 ELSE 0)
    + (IF phoneMatch(normS, normT) THEN 10 ELSE 0)

confidence(normS, normT) ==
    (IF nameMatch(normS, normT) THEN 40 ELSE 0)
    + (IF addressMatch(normS, normT) THEN 50 ELSE 0)
    + (IF phoneMatch(normS, normT) /\ normS.phone # <<>> /\ normT.phone # <<>>
       THEN 10 ELSE 0)

\* variant: the phone has to match as well
overallMatchWithPhone(normS, normT) ==
    nameMatch(normS, normT) /\ addressMatch(normS, normT) /\ phoneMatch(normS, normT)

overallMatch(normS, normT) == nameMatch(normS, normT) /\ addressMatch(normS, normT)

\* variant: a ZIP mismatch costs half of the address score
detailsZipScored(normS, normT) ==
    [nameScore    |-> IF nameMatch(normS, normT) THEN Ratio(100, 1)
                      ELSE LET sim == levenshteinSimilarity(normS.name, normT.name)
                           IN  Ratio(sim.num * 100, sim.den),
     addressScore |-> IF addressMatch(normS, normT) THEN 100
                      ELSE IF streetMatch(normS, normT) /\ cityMatch(normS, normT) THEN 50
                      ELSE (IF streetMatch(normS, normT) THEN 50 ELSE 0)
                           + (IF cityMatch(normS, normT) THEN 50 ELSE 0),
     phoneScore   |-> IF phoneMatch(normS, normT) THEN 100 ELSE 0]

\* the details object; nameScore is a ratio, the other two are integers
details(normS, normT) ==
    [nameScore    |-> IF nameMatch(normS, normT) THEN Ratio(100, 1)
                      ELSE LET sim == levenshteinSimilarity(normS.name, normT.name)
                           IN  Ratio(sim.num * 100, sim.den),
     addressScore |-> IF addressMatch(normS, normT) THEN 100
                      ELSE (IF streetMatch(normS, normT) THEN 50 ELSE 0)
                           + (IF cityMatch(normS, normT) THEN 50 ELSE 0),
     phoneScore   |-> IF phoneMatch(normS, normT) THEN 100 ELSE 0]

\* the object compareNAP returns for the two normalized records
MatchResult(normS, normT) ==
    [nameMatch    |-> nameMatch(normS, normT),
     addressMatch |-> addressMatch(normS, normT),
     phoneMatch   |-> phoneMatch(normS, normT),
     overallMatch |-> overallMatch(normS, normT),
     confidence   |-> confidence(normS, normT),
     details      |-> details(normS, normT)]

-----------------------------------------------------------------------------
(* The records the callers pass: the three example records of App.tsx and  *)
(* variations of their fields.                                             *)

\* "The Gents Place"
GentsPlace ==
    <<"T","h","e"," ","G","e","n","t","s"," ","P","l","a","c","e">>

\* "Gents Place Barbershop"
GentsPlaceBarbershop ==
    <<"G","e","n","t","s"," ","P","l","a","c","e"," ","B","a","r","b","e",
      "r","s","h","o","p">>

\* "Michaels"
Michaels ==
    <<"M","i","c","h","a","e","l","s">>

\* "Smith Co."
SmithCo ==
    <<"S","m","i","t","h"," ","C","o",".">>

\* "Smyth"
Smyth ==
    <<"S","m","y","t","h">>

\* "The Smithy"
TheSmithy ==
    <<"T","h","e"," ","S","m","i","t","h","y">>

\* "Smythy Inc"
SmythyInc ==
    <<"S","m","y","t","h","y"," ","I","n","c">>

\* "The LLC"
TheLLC ==
    <<"T","h","e"," ","L","L","C">>

\* ""
NoName ==
    <<>>

\* "10225 Research Blvd #310, Austin, TX 78759"
ResearchBlvd310 ==
    <<"1","0","2","2","5"," ","R","e","s","e","a","r","c","h"," ","B","l",
      "v","d"," ","#","3","1","0",","," ","A","u","s","t","i","n",","," ",
      "T","X"," ","7","8","7","5","9">>

\* "10225 Research Boulevard Suite 310, Austin, Texas 78759"
ResearchBoulevardSuite310 ==
    <<"1","0","2","2","5"," ","R","e","s","e","a","r","c","h"," ","B","o",
      "u","l","e","v","a","r","d"," ","S","u","i","t","e"," ","3","1","0",
      ","," ","A","u","s","t","i","n",","," ","T","e","x","a","s"," ","7",
      "8","7","5","9">>

\* "10225 Research Boulevard, Austin, TX 78759"
ResearchBoulevard ==
    <<"1","0","2","2","5"," ","R","e","s","e","a","r","c","h"," ","B","o",
      "u","l","e","v","a","r","d",","," ","A","u","s","t","i","n",","," ",
      "T","X"," ","7","8","7","5","9">>

\* "1 Elm St, Ada, TX 75001"
ElmSt ==
    <<"1"," ","E","l","m"," ","S","t",","," ","A","d","a",","," ","T","X",
      " ","7","5","0","0","1">>

\* "1 Elm Street #5, Ada, Texas 75001"
ElmStreetUnit ==
    <<"1"," ","E","l","m"," ","S","t","r","e","e","t"," ","#","5",","," ",
      "A","d","a",","," ","T","e","x","a","s"," ","7","5","0","0","1">>

\* "1 Elm St, Ada, TX 75002-1234"
ElmStOtherZip ==
    <<"1"," ","E","l","m"," ","S","t",","," ","A","d","a",","," ","T","X",
      " ","7","5","0","0","2","-","1","2","3","4">>

\* "1 Elm St, Ava, TX 75001"
ElmStOtherCity ==
    <<"1"," ","E","l","m"," ","S","t",","," ","A","v","a",","," ","T","X",
      " ","7","5","0","0","1">>

\* "9 Oak Ave, Ada, TX 75001"
OakAve ==
    <<"9"," ","O","a","k"," ","A","v","e",","," ","A","d","a",","," ","T",
      "X"," ","7","5","0","0","1">>

\* "1 Elm St, Ada, TX"
ElmStNoZip ==
    <<"1"," ","E","l","m"," ","S","t",","," ","A","d","a",","," ","T","X">>

\* "1 Elm St"
ElmStOnly ==
    <<"1"," ","E","l","m"," ","S","t">>

\* ""
NoAddress ==
    <<>>

\* "(512) 555-1234"
Phone1234Parens ==
    <<"(","5","1","2",")"," ","5","5","5","-","1","2","3","4">>

\* "512-555-1234"
Phone1234Dashes ==
    <<"5","1","2","-","5","5","5","-","1","2","3","4">>

\* "(512) 555-9999"
Phone9999 ==
    <<"(","5","1","2",")"," ","5","5","5","-","9","9","9","9">>

\* "+1 512 555 1234"
Phone1234Country ==
    <<"+","1"," ","5","1","2"," ","5","5","5"," ","1","2","3","4">>

\* ""
NoPhone ==
    <<>>

Names ==
    {SmithCo, Smyth, TheSmithy, SmythyInc, TheLLC, NoName}

Addresses ==
    {ElmSt,
     ElmStreetUnit,
     ElmStOtherZip,
     ElmStOtherCity,
     OakAve,
     ElmStNoZip,
     ElmStOnly,
     NoAddress}

Phones ==
    {Phone1234Parens, Phone9999, Phone1234Country, NoPhone, Undefined}

NAPData(name, address, phone) == [name |-> name, address |-> address, phone |-> phone]

userBusiness == NAPData(GentsPlace, ResearchBlvd310, Phone1234Parens)

yelpBusiness == NAPData(GentsPlaceBarbershop, ResearchBoulevardSuite310, Phone1234Dashes)

wrongBusiness == NAPData(Michaels, ResearchBoulevard, Phone9999)

\* the records of the example usage
ExampleRecords == {userBusiness, yelpBusiness, wrongBusiness}

\* the records a caller passes: the examples, the examples with any other
\* phone, and every combination of the field variations
Records ==
    ExampleRecords
    \cup {[nap EXCEPT !.phone = phone] : nap \in ExampleRecords, phone \in Phones}
    \cup [name : Names, address : Addresses, phone : Phones]

\* what a local or a return value holds before the call
NoValue == [none |-> TRUE]

\* no request is under way: nothing awaited, nothing sent
NoService ==
    /\ results = NoValue
    /\ retries = 0
    /\ delay = 0
    /\ log = <<>>

\* normalizeNAP is a pure function of its argument: this is the table of its
\* values on Records (@@ makes TLC build the table once, where it would evaluate
\* a bare function expression again at every application)
Normalized == [nap \in Records |-> normalizeNAP(nap)] @@ <<>>

\* variant: the record normalized by the previous call is kept and returned
NormalizeCallCached(nap) ==
    IF normSource # NoValue THEN normSource
    ELSE IF nap \in Records THEN Normalized[nap] ELSE normalizeNAP(nap)

\* the call normalizeNAP(nap) of compareNAP: looked up for a record of Records,
\* computed for any other record
NormalizeCall(nap) == IF nap \in Records THEN Normalized[nap] ELSE normalizeNAP(nap)

-----------------------------------------------------------------------------
(* The calls.                                                              *)

\* compareNAP(source, target), the whole call: both records are normalized and
\* the result object is built from the normalized records; a throw of
\* normalizeNAP goes through
CompareNAP ==
    /\ pc = "input"
    /\ \E normalized \in {[nap \in {source, target} |-> NormalizeCall(nap)]} :
           /\ normSource' = normalized[source]
           /\ normTarget' = normalized[target]
    /\ result' = IF IsThrown(normSource') \/ IsThrown(normTarget') THEN TypeError
                  ELSE MatchResult(normSource', normTarget')
    /\ calls' = Append(calls, [source |-> source, target |-> target, result |-> result'])
    /\ pc' = "done"
    /\ UNCHANGED <<source, target, script, step, serviceVars>>

\* a caller holds any two records and compares them
Init ==
    /\ source \in Records
    /\ target \in Records
    /\ normSource = NoValue
    /\ normTarget = NoValue
    /\ result = NoValue
    /\ pc = "input"
    /\ script = <<>>
    /\ step = 0
    /\ calls = <<>>
    /\ NoService

Next == CompareNAP

Spec == Init /\ [][Next]_vars

-----------------------------------------------------------------------------
(* Two callers type one address each, word by word, in two styles: the     *)
(* same plain words, and for a dictionary word any two of its forms.       *)

\* how many words an address of the composing callers has at most
MaxWords == 3

PlainWords == {<<"1","2">>, <<"e","l","m">>}

\* the forms of three dictionary words: the long form, the short form and the
\* short form with a period (the dictionary has no key "n.")
WordForms ==
    {<< <<"s","t","r","e","e","t">>, <<"s","t">>, <<"s","t",".">> >>,
     << <<"s","u","i","t","e">>, <<"s","t","e">>, <<"s","t","e",".">> >>,
     << <<"n","o","r","t","h">>, <<"n">> >>}

\* the separator typed before the next word
Sep(address) == IF address = <<>> THEN <<>> ELSE <<" ">>

AddWord(nap, w) == [nap EXCEPT !.address = @ \o Sep(@) \o w]

\* both callers type the same plain word
TypeWord(w) ==
    /\ pc = "input"
    /\ step < MaxWords
    /\ source' = AddWord(source, w)
    /\ target' = AddWord(target, w)
    /\ step' = step + 1
    /\ UNCHANGED <<normSource, normTarget, result, pc, script, calls, serviceVars>>

\* both callers type the same dictionary word, each in a form of their own
TypeAbbreviation(forms, a, b) ==
    /\ pc = "input"
    /\ step < MaxWords
    /\ source' = AddWord(source, forms[a])
    /\ target' = AddWord(target, forms[b])
    /\ step' = step + 1
    /\ UNCHANGED <<normSource, normTarget, result, pc, script, calls, serviceVars>>

\* the first caller puts a comma after the last word, the second does not
TypeComma ==
    /\ pc = "input"
    /\ step < MaxWords
    /\ source.address # <<>>
    /\ source.address[Len(source.address)] # ","
    /\ source' = [source EXCEPT !.address = @ \o <<",">>]
    /\ step' = step + 1
    /\ UNCHANGED <<target, normSource, normTarget, result, pc, script, calls, serviceVars>>

InitCompose ==
    /\ source = NAPData(SmithCo, <<>>, NoPhone)
    /\ target = NAPData(SmithCo, <<>>, NoPhone)
    /\ normSource = NoValue
    /\ normTarget = NoValue
    /\ result = NoValue
    /\ pc = "input"
    /\ script = <<>>
    /\ step = 0
    /\ calls = <<>>
    /\ NoService

NextAbbreviation ==
    \/ \E w \in PlainWords : TypeWord(w)
    \/ \E forms \in WordForms : \E a, b \in 1..Len(forms) : a <= b /\ TypeAbbreviation(forms, a, b)
    \/ TypeComma
    \/ CompareNAP

SpecAbbreviation == InitCompose /\ [][NextAbbreviation]_vars

-----------------------------------------------------------------------------
(* Two callers type one address each: the same plain words, and a unit,    *)
(* each with a designator and a unit number of their own, or with none.    *)

\* "ste", "suite", "apt", "apartment", "unit" are followed by a space, "#" is not
UnitDesignators ==
    {<<"s","t","e"," ">>, <<"s","u","i","t","e"," ">>, <<"a","p","t"," ">>,
     <<"a","p","a","r","t","m","e","n","t"," ">>, <<"u","n","i","t"," ">>, <<"#">>}

UnitNumbers == {<<"5">>, <<"3","b">>}

\* what a caller may type as the unit: nothing, or a designator and a number
UnitTexts == {<<>>} \cup {d \o n : d \in UnitDesignators, n \in UnitNumbers}

AddUnit(nap, u) == IF u = <<>> THEN nap ELSE AddWord(nap, u)

\* the callers type the unit, once, each in a way of their own
TypeUnit(u, v) ==
    /\ pc = "input"
    /\ step < MaxWords
    /\ source.address = target.address
    /\ source' = AddUnit(source, u)
    /\ target' = AddUnit(target, v)
    /\ step' = step + 1
    /\ UNCHANGED <<normSource, normTarget, result, pc, script, calls, serviceVars>>

NextUnit ==
    \/ \E w \in PlainWords : TypeWord(w)
    \/ \E u, v \in UnitTexts : u # v /\ TypeUnit(u, v)
    \/ CompareNAP

SpecUnit == InitCompose /\ [][NextUnit]_vars

-----------------------------------------------------------------------------
(* A caller types a phone number: the digits of the script in order, with  *)
(* punctuation anywhere between them.  The script is a 10-digit number,    *)
(* bare, with the country code 1 before it or with an extension after it;  *)
(* the target record holds the bare 10 digits.                             *)

\* how many punctuation characters the typed phone holds at most
MaxPunctuation == 2

PhoneNumbers == {<<"5","1","2","5","5","5","1","2","3","4">>}

\* what the caller types around the number: nothing, the country code before
\* it, or an extension after it
PhoneAffixes ==
    {[before |-> <<>>, after |-> <<>>],
     [before |-> <<"1">>, after |-> <<>>],
     [before |-> <<>>, after |-> <<"7">>]}

PhonePunctuation == {"(", "-", "+"}

\* the text of an optional phone
PhoneText(phone) == IF phone = Undefined THEN <<>> ELSE phone

TypeDigit ==
    /\ pc = "input"
    /\ source.phone # Undefined
    /\ step < Len(script)
    /\ source' = [source EXCEPT !.phone = Append(@, script[step + 1])]
    /\ step' = step + 1
    /\ UNCHANGED <<target, normSource, normTarget, result, pc, script, calls, serviceVars>>

TypePunctuation(c) ==
    /\ pc = "input"
    /\ source.phone # Undefined
    /\ Len(source.phone) - step < MaxPunctuation
    /\ source' = [source EXCEPT !.phone = Append(@, c)]
    /\ UNCHANGED <<target, normSource, normTarget, result, pc, script, step, calls, serviceVars>>

InitPhone ==
    /\ \E number \in PhoneNumbers, affix \in PhoneAffixes :
          /\ script = affix.before \o number \o affix.after
          /\ target = NAPData(NoName, NoAddress, number)
    /\ source \in {NAPData(NoName, NoAddress, <<>>), NAPData(NoName, NoAddress, Undefined)}
    /\ normSource = NoValue
    /\ normTarget = NoValue
    /\ result = NoValue
    /\ pc = "input"
    /\ step = 0
    /\ calls = <<>>
    /\ NoService

NextPhone ==
    \/ TypeDigit
    \/ \E c \in PhonePunctuation : TypePunctuation(c)
    \/ CompareNAP

SpecPhone == InitPhone /\ [][NextPhone]_vars

-----------------------------------------------------------------------------
(* Callers call compareNAP one after the other, each with records of its   *)
(* own.  compareNAP is synchronous, so the calls of concurrent callers     *)
(* run one at a time, in any order; the locals and the result of the       *)
(* previous call are still around when the next one starts.                *)

\* how many calls the callers make at most
MaxCalls == 3

\* the records the callers pass
CallRecords ==
    {NAPData(SmithCo, ElmSt, Phone1234Parens),
     NAPData(Smyth, ElmStOtherZip, Phone1234Country),
     NAPData(TheLLC, ElmStOnly, Undefined)}

\* the next caller sets up its arguments
NextCall(s, t) ==
    /\ pc = "done"
    /\ step < MaxCalls
    /\ source' = s
    /\ target' = t
    /\ pc' = "input"
    /\ step' = step + 1
    /\ UNCHANGED <<normSource, normTarget, result, script, calls, serviceVars>>

InitCalls ==
    /\ source \in CallRecords
    /\ target \in CallRecords
    /\ normSource = NoValue
    /\ normTarget = NoValue
    /\ result = NoValue
    /\ pc = "input"
    /\ script = <<>>
    /\ step = 1
    /\ calls = <<>>
    /\ NoService

NextCalls ==
    \/ \E s, t \in CallRecords : NextCall(s, t)
    \/ CompareNAP

SpecCalls == InitCalls /\ [][NextCalls]_vars

-----------------------------------------------------------------------------
(* levenshteinSimilarity is called on any two strings.  It only compares   *)
(* characters for equality, so two different characters stand for all.     *)

\* how long the two strings are at most
MaxLength == 3

SimilarityAlphabet == {"x", "y"}

SimilarityStrings == UNION {[1..n -> SimilarityAlphabet] : n \in 0..MaxLength}

LevenshteinSimilarity ==
    /\ pc = "input"
    /\ result' = levenshteinSimilarity(source, target)
    /\ pc' = "done"
    /\ UNCHANGED <<source, target, normSource, normTarget, script, step, calls, serviceVars>>

InitSimilarity ==
    /\ source \in SimilarityStrings
    /\ target \in SimilarityStrings
    /\ normSource = NoValue
    /\ normTarget = NoValue
    /\ result = NoValue
    /\ pc = "input"
    /\ script = <<>>
    /\ step = 0
    /\ calls = <<>>
    /\ NoService

NextSimilarity == LevenshteinSimilarity

SpecSimilarity == InitSimilarity /\ [][NextSimilarity]_vars

-----------------------------------------------------------------------------
(* normalizeName is called on any name: company words, articles, spaces,   *)
(* punctuation and a letter whose lower case is longer than the letter.    *)

\* how many pieces a typed name or address has at most
MaxTokens == 4

NameTokens ==
    {<<"T","h","e">>, <<"C","o",".">>, <<"a">>, <<"x","1">>, <<" ">>, <<CapitalIDot>>}

\* the caller types the next piece of the name
TypeNameToken(tok) ==
    /\ pc = "input"
    /\ step < MaxTokens
    /\ source' = source \o tok
    /\ step' = step + 1
    /\ UNCHANGED <<target, normSource, normTarget, result, pc, script, calls, serviceVars>>

NormalizeName ==
    /\ pc = "input"
    /\ result' = normalizeName(source)
    /\ pc' = "done"
    /\ UNCHANGED <<source, target, normSource, normTarget, script, step, calls, serviceVars>>

InitName ==
    /\ source = <<>>
    /\ target = NoValue
    /\ normSource = NoValue
    /\ normTarget = NoValue
    /\ result = NoValue
    /\ pc = "input"
    /\ script = <<>>
    /\ step = 0
    /\ calls = <<>>
    /\ NoService

NextName ==
    \/ \E tok \in NameTokens : TypeNameToken(tok)
    \/ NormalizeName

SpecName == InitName /\ [][NextName]_vars

-----------------------------------------------------------------------------
(* normalizeAddress is called on an address and on the same address in     *)
(* upper case.                                                             *)

CaseWords ==
    {<<"1","2">>, <<"E","l","m">>, <<"S","t",".">>, <<"s","t","r","a",SharpS,"e">>}

\* the caller types the next word of the address
TypeAddressWord(w) ==
    /\ pc = "input"
    /\ step < MaxWords
    /\ source' = source \o Sep(source) \o w
    /\ step' = step + 1
    /\ UNCHANGED <<target, normSource, normTarget, result, pc, script, calls, serviceVars>>

\* normalizeAddress(a) and normalizeAddress(a.toUpperCase())
NormalizeAddressInBothCases ==
    /\ pc = "input"
    /\ target' = toUpperCase(source)
    /\ normSource' = normalizeAddress(source)
    /\ normTarget' = normalizeAddress(target')
    /\ pc' = "done"
    /\ UNCHANGED <<source, result, script, step, calls, serviceVars>>

NextCase ==
    \/ \E w \in CaseWords : TypeAddressWord(w)
    \/ NormalizeAddressInBothCases

SpecCase == InitName /\ [][NextCase]_vars

-----------------------------------------------------------------------------
(* compareNAP is called on a record whose address is any text: empty,      *)
(* without commas, with empty segments, with a state or a ZIP alone; the   *)
(* phone is a string or undefined.                                         *)

AddressTokens ==
    {<<",">>, <<" ">>, <<"T","X">>, <<"7","5","0","0","1">>, <<"A","d","a">>}

\* the caller types the next piece of the address
TypeAddressToken(tok) ==
    /\ pc = "input"
    /\ step < MaxTokens
    /\ source' = [source EXCEPT !.address = @ \o tok]
    /\ step' = step + 1
    /\ UNCHANGED <<target, normSource, normTarget, result, pc, script, calls, serviceVars>>

InitMalformed ==
    /\ source \in {NAPData(NoName, NoAddress, Undefined), NAPData(SmithCo, NoAddress, Phone9999)}
    /\ target = NAPData(SmithCo, ElmSt, Undefined)
    /\ normSource = NoValue
    /\ normTarget = NoValue
    /\ result = NoValue
    /\ pc = "input"
    /\ script = <<>>
    /\ step = 0
    /\ calls = <<>>
    /\ NoService

NextMalformed ==
    \/ \E tok \in AddressTokens : TypeAddressToken(tok)
    \/ CompareNAP

SpecMalformed == InitMalformed /\ [][NextMalformed]_vars

-----------------------------------------------------------------------------
(* analyzeCitations: what it does with the result of compareNAP.           *)

\* variant: a confidence of 50 is enough
IsConsistentAboveHalf(listing) ==
    listing.napMatch = TRUE \/ (listing.napConfidence # 0 /\ listing.napConfidence >= 50)

\* r.napMatch === true || (r.napConfidence && r.napConfidence >= 70)
IsConsistent(listing) ==
    listing.napMatch = TRUE \/ (listing.napConfidence # 0 /\ listing.napConfidence >= 70)

\* the fields analyzeCitations adds to a found listing
NapFields(napComparison) ==
    [napMatch      |-> napComparison.overallMatch,
     napConfidence |-> napComparison.confidence,
     napDetails    |-> napComparison.details]

-----------------------------------------------------------------------------
(* normalizeNAP on addresses whose third segment is typed piece by piece.  *)

\* "9 Oak, Ada," : the first two segments
StateZipPrefix == <<"9"," ","O","a","k",","," ","A","d","a",",">>

StateZipTokens ==
    {<<" ">>, <<"T","X">>, <<"7","8","7","5","9">>, <<"-","1","2","3","4">>,
     <<"t","x">>}

\* the caller types the next piece of the third segment
TypeStateZipToken(tok) ==
    /\ pc = "input"
    /\ step < MaxTokens
    /\ source' = [source EXCEPT !.address = @ \o tok]
    /\ step' = step + 1
    /\ UNCHANGED <<target, normSource, normTarget, result, pc, script, calls, serviceVars>>

\* normalizeNAP(source)
NormalizeNAP ==
    /\ pc = "input"
    /\ normSource' = normalizeNAP(source)
    /\ result' = normSource'
    /\ pc' = "done"
    /\ UNCHANGED <<source, target, normTarget, script, step, calls, serviceVars>>

InitStateZip ==
    /\ source = NAPData(SmithCo, StateZipPrefix, Phone9999)
    /\ target = NoValue
    /\ normSource = NoValue
    /\ normTarget = NoValue
    /\ result = NoValue
    /\ pc = "input"
    /\ script = <<>>
    /\ step = 0
    /\ calls = <<>>
    /\ NoService

NextStateZip ==
    \/ \E tok \in StateZipTokens : TypeStateZipToken(tok)
    \/ NormalizeNAP

SpecStateZip == InitStateZip /\ [][NextStateZip]_vars

-----------------------------------------------------------------------------
(* callGeminiApi: one request, repeated after a wait while the service     *)
(* answers 429.                                                            *)

\* the defaults of the parameters retries and delay
DefaultRetries == 3

DefaultDelay == 1000

\* analyzeGbp, analyzeCitations and analyzeOnPageHtml each build a payload
Payloads == {"gbp", "citations", "onPage"}

\* the statuses the service answers with
Statuses == {200, 400, 403, 429, 500, 503}

\* what the text of an OK answer holds: a JSON value, a JSON value in a
\* markdown block, other text, or no text part at all
Bodies == {"json", "fenced json", "plain text", "no text"}

Entry(kind, value) == [kind |-> kind, value |-> value]

\* throw new Error(message)
Error(message) == [thrown |-> "Error", message |-> message]

\* extractJson(text)
extractJson(body) ==
    IF body \in {"json", "fenced json"} THEN [value |-> "parsed"]
    ELSE Error("Gemini response was not valid JSON.")

\* variant: every failed request is tried again
ShouldRetryAnyFailure(status, retriesLeft) == status # 200 /\ retriesLeft > 0

\* response.status === 429 && retries > 0
ShouldRetry(status, retriesLeft) == status = 429 /\ retriesLeft > 0

\* a caller calls callGeminiApi(payload): the first fetch goes out
CallGeminiApi ==
    /\ pc = "input"
    /\ retries' = DefaultRetries
    /\ delay' = DefaultDelay
    /\ log' = <<Entry("request", source)>>
    /\ pc' = "fetch"
    /\ UNCHANGED <<source, result, results, compareVars>>

\* the awaited fetch resolves with a response
GeminiResponse(status, body) ==
    /\ pc = "fetch"
    /\ status # 200 => body = "plain text"
    /\ IF status # 200
       THEN IF ShouldRetry(status, retries)
            THEN /\ log' = log \o <<Entry("response", status), Entry("wait", delay)>>
                 /\ pc' = "wait"
                 /\ UNCHANGED result
            ELSE /\ log' = Append(log, Entry("response", status))
                 /\ result' = Error("API call failed with status")
                 /\ pc' = "done"
       ELSE /\ log' = Append(log, Entry("response", status))
            /\ result' = IF body = "no text"
                         THEN Error("Invalid response structure from Gemini API.")
                         ELSE extractJson(body)
            /\ pc' = "done"
    /\ UNCHANGED <<source, retries, delay, results, compareVars>>

\* the awaited fetch rejects: the catch block throws the error again
GeminiNetworkError ==
    /\ pc = "fetch"
    /\ log' = Append(log, Entry("failure", 0))
    /\ result' = Error("fetch failed")
    /\ pc' = "done"
    /\ UNCHANGED <<source, retries, delay, results, compareVars>>

\* the timer fires: callGeminiApi(payload, retries - 1, delay * 2)
GeminiRetry ==
    /\ pc = "wait"
    /\ retries' = retries - 1
    /\ delay' = delay * 2
    /\ log' = Append(log, Entry("request", source))
    /\ pc' = "fetch"
    /\ UNCHANGED <<source, result, results, compareVars>>

InitGemini ==
    /\ source \in Payloads
    /\ target = NoValue
    /\ normSource = NoValue
    /\ normTarget = NoValue
    /\ result = NoValue
    /\ pc = "input"
    /\ script = <<>>
    /\ step = 0
    /\ calls = <<>>
    /\ NoService

NextGemini ==
    \/ CallGeminiApi
    \/ \E status \in Statuses, body \in Bodies : GeminiResponse(status, body)
    \/ GeminiNetworkError
    \/ GeminiRetry

\* every fetch settles and every timer fires
SpecGemini == InitGemini /\ [][NextGemini]_vars /\ WF_vars(NextGemini)

-----------------------------------------------------------------------------
(* generateRealReport: four getSingleAnalysis calls awaited together, the   *)
(* report combined from them and saved.                                    *)

AnalysisTypes == {"gbp", "citations", "onPage", "speed"}

\* the field of the report a type's result goes to
ReportField ==
    [gbp |-> "gbpAnalysis", citations |-> "citationAnalysis",
     onPage |-> "onPageAnalysis", speed |-> "speedInsights"]

StatusText == (200 :> "200") @@ (400 :> "400") @@ (500 :> "500") @@ (504 :> "504")

\* what fetch('/api/get-analysis') settles with: a response with a status and
\* a body that is JSON or not, or a rejection (status 0)
Response(status, json, error, data) ==
    [status |-> status, json |-> json, error |-> error, data |-> data]

FetchRejected == Response(0, FALSE, "", "")

AnalysisResponses ==
    {Response(200, TRUE, "", "analysis"),
     Response(200, FALSE, "", ""),
     Response(400, TRUE, "Missing required fields", ""),
     Response(500, TRUE, "Google Places API key missing", ""),
     Response(500, TRUE, "", ""),
     Response(504, FALSE, "", ""),
     FetchRejected}

\* response.ok
IsOk(response) == response.status >= 200 /\ response.status <= 299

\* the block under if (!response.ok): what is thrown inside the inner try is
\* caught by the inner catch, which throws its own error
FailedResponseError(response) ==
    LET thrownInTry ==
            IF ~response.json THEN Error("Unexpected token in JSON")
            ELSE IF response.error # "" THEN Error(response.error)
            ELSE Error("API call failed with status " \o StatusText[response.status])
    IN  IF IsThrown(thrownInTry)
        THEN Error("API call failed with status " \o StatusText[response.status]
                       \o " and non-JSON response.")
        ELSE thrownInTry

\* the value getSingleAnalysis resolves with: the parsed body, or
\* { error: error.message } for whatever was thrown
getSingleAnalysis(response) ==
    LET outcome ==
            IF response = FetchRejected THEN Error("Failed to fetch")
            ELSE IF ~IsOk(response) THEN FailedResponseError(response)
            ELSE IF ~response.json THEN Error("Unexpected token in JSON")
            ELSE [data |-> response.data]
    IN  IF IsThrown(outcome) THEN [error |-> outcome.message] ELSE outcome

Pending == [status |-> "pending"]

\* an async function's promise: rejected when the function throws
Settled(response, value) ==
    IF IsThrown(value)
    THEN [status |-> "rejected", reason |-> value, response |-> response]
    ELSE [status |-> "fulfilled", value |-> value, response |-> response]

\* xResult.status === 'fulfilled' ? xResult.value : { error: xResult.reason.message }
SectionOf(settled) ==
    IF settled.status = "fulfilled" THEN settled.value
    ELSE [error |-> settled.reason.message]

SaveOutcomes == {"saved", "no user", "save failed"}

\* variant: without the try block around getUserId and saveAnalysis
AfterSaveUncaught(report, outcome) ==
    IF outcome = "saved" THEN report
    ELSE Error("Failed to generate report: " \o outcome)

\* step 3: a failure of getUserId or saveAnalysis is logged, the report returned
AfterSave(report, outcome) == report

\* generateRealReport is called: the four requests go out
GenerateRealReport ==
    /\ pc = "input"
    /\ results' = [type \in AnalysisTypes |-> Pending]
    /\ pc' = "await"
    /\ UNCHANGED <<source, result, retries, delay, log, compareVars>>

\* one of the requests is answered
AnalysisSettles(type, response) ==
    /\ pc = "await"
    /\ results[type] = Pending
    /\ results' = [results EXCEPT ![type] = Settled(response, getSingleAnalysis(response))]
    /\ UNCHANGED <<source, result, pc, retries, delay, log, compareVars>>

\* all four are settled: step 2
CombineResults ==
    /\ pc = "await"
    /\ \A type \in AnalysisTypes : results[type] # Pending
    /\ result' = [field \in {ReportField[type] : type \in AnalysisTypes} |->
                     SectionOf(results[CHOOSE type \in AnalysisTypes : ReportField[type] = field])]
    /\ pc' = "save"
    /\ UNCHANGED <<source, results, retries, delay, log, compareVars>>

SaveReport(outcome) ==
    /\ pc = "save"
    /\ result' = AfterSave(result, outcome)
    /\ log' = Append(log, Entry("save", outcome))
    /\ pc' = "done"
    /\ UNCHANGED <<source, results, retries, delay, compareVars>>

InitReport ==
    /\ source = NAPData(SmithCo, ElmSt, Undefined)
    /\ target = NoValue
    /\ normSource = NoValue
    /\ normTarget = NoValue
    /\ result = NoValue
    /\ pc = "input"
    /\ script = <<>>
    /\ step = 0
    /\ calls = <<>>
    /\ NoService

NextReport ==
    \/ GenerateRealReport
    \/ \E type \in AnalysisTypes, response \in AnalysisResponses : AnalysisSettles(type, response)
    \/ CombineResults
    \/ \E outcome \in SaveOutcomes : SaveReport(outcome)

SpecReport == InitReport /\ [][NextReport]_vars

-----------------------------------------------------------------------------
(* Numbers with fractions: the arithmetic of the scores.  A ratio with     *)
(* denominator 0 is not a finite number: 0/0 is NaN.                       *)

NaN == Ratio(0, 0)

Infinity == Ratio(1, 0)

Whole(n) == Ratio(n, 1)

IsFinite(a) == a.den # 0

RECURSIVE GCD(_, _)
GCD(a, b) == IF b = 0 THEN a ELSE GCD(b, a % b)

\* the same number in lowest terms
Lowest(num, den) == Ratio(num \div GCD(num, den), den \div GCD(num, den))

\* a + b
Plus(a, b) ==
    IF a = NaN \/ b = NaN THEN NaN
    ELSE IF ~IsFinite(a) \/ ~IsFinite(b) THEN Infinity
    ELSE Lowest(a.num * b.den + b.num * a.den, a.den * b.den)

\* a * b
Times(a, b) ==
    IF ~IsFinite(a) \/ ~IsFinite(b) THEN NaN
    ELSE Lowest(a.num * b.num, a.den * b.den)

\* a / b for a, b >= 0
Divide(a, b) ==
    IF ~IsFinite(a) \/ ~IsFinite(b) THEN NaN
    ELSE IF b.num = 0 THEN (IF a.num = 0 THEN NaN ELSE Infinity)
    ELSE Lowest(a.num * b.den, a.den * b.num)

\* Math.min(a, b)
MathMin(a, b) ==
    IF a = NaN \/ b = NaN THEN NaN
    ELSE IF a = Infinity THEN b
    ELSE IF b = Infinity THEN a
    ELSE IF GreaterThan(a, b) THEN b ELSE a

\* Math.round(a): the nearest integer, halves upwards
MathRound(a) ==
    IF ~IsFinite(a) THEN a
    ELSE Whole((2 * a.num + a.den) \div (2 * a.den))

-----------------------------------------------------------------------------
(* analyzeCitations: seven directory checks awaited together, each found    *)
(* listing compared with the business, and the citation score.             *)

\* the order of the array handed to Promise.all
DirectoryOrder ==
    <<"yelp", "foursquare", "yellowPages", "facebook", "whitepages", "mapquest",
      "openStreetMap">>

Directories == {DirectoryOrder[i] : i \in 1..Len(DirectoryOrder)}

\* how a request of a check can end
Outcomes == {"found", "no result", "non-OK", "network error", "timeout"}

\* a check's result for a listing: the fields analyzeCitations reads; hours is
\* whether there are hours, categories and photos are the lengths of the lists,
\* rating is in tenths (0: none)
Listing(name, fullAddress, displayName, phone, hours, categories, photos, rating) ==
    [found |-> TRUE, name |-> name, fullAddress |-> fullAddress,
     displayName |-> displayName, phone |-> phone, hours |-> hours,
     categories |-> categories, photos |-> photos, rating |-> rating]

\* { found: false, ... }
NotFound(note) == [found |-> FALSE, note |-> note]

\* the text after "Yelp ", "OSM ": the status, or the message of the error
FailureNote(outcome) ==
    IF outcome = "no result" THEN "No results"
    ELSE IF outcome = "non-OK" THEN "500"
    ELSE IF outcome = "timeout" THEN "timeout"
    ELSE "fetch failed"

NoText == <<>>

checkYelp(outcome, businessName, address) ==
    IF outcome = "found"
    THEN Listing(TheSmithy, ElmStreetUnit, NoText, Phone1234Dashes, TRUE, 2, 3, 45)
    ELSE NotFound(FailureNote(outcome))

checkFoursquare(outcome, businessName, address) ==
    IF outcome = "found"
    THEN Listing(Smyth, OakAve, NoText, NoText, FALSE, 1, 0, 0)
    ELSE NotFound(FailureNote(outcome))

\* googleSiteSearch: every failure is { found: false }
googleSiteSearch(outcome) ==
    IF outcome = "found" THEN [found |-> TRUE] ELSE [found |-> FALSE]

\* the direct request found a business page: phone read from the page
checkYellowPagesDirect(outcome, businessName, address) ==
    Listing(businessName, address, NoText, Phone1234Dashes, FALSE, 0, 0, 0)

\* the fallback by googleSiteSearch
checkYellowPages(outcome, businessName, address) ==
    IF googleSiteSearch(outcome).found
    THEN Listing(businessName, address, NoText, NoText, FALSE, 0, 0, 0)
    ELSE NotFound("No Yellow Pages listing found")

checkFacebook(outcome, businessName, address) ==
    IF googleSiteSearch(outcome).found
    THEN Listing(businessName, address, NoText, NoText, FALSE, 0, 0, 0)
    ELSE googleSiteSearch(outcome)

\* { ...result, name: businessName, fullAddress: address }
checkWhitepages(outcome, businessName, address) ==
    IF googleSiteSearch(outcome).found
    THEN Listing(businessName, address, NoText, NoText, FALSE, 0, 0, 0)
    ELSE [found |-> FALSE, name |-> businessName, fullAddress |-> address]

\* variant: without the try block around the request
checkMapQuestUncaught(outcome, businessName, address) ==
    IF outcome = "found"
    THEN Listing(TheSmithy, ElmStOtherZip, NoText, Phone1234Country, FALSE, 2, 0, 0)
    ELSE IF outcome \in {"network error", "timeout"} THEN Error(FailureNote(outcome))
    ELSE [found |-> FALSE]

checkMapQuest(outcome, businessName, address) ==
    IF outcome = "found"
    THEN Listing(TheSmithy, ElmStOtherZip, NoText, Phone1234Country, FALSE, 2, 0, 0)
    ELSE [found |-> FALSE]

\* fullAddress is empty when the answer has no address parts
checkOpenStreetMap(outcome, businessName, address) ==
    IF outcome = "found"
    THEN Listing(SmithCo, NoText, ElmStOtherCity, NoText, FALSE, 0, 0, 0)
    ELSE NotFound(FailureNote(outcome))

CheckResult(directory, outcome, businessName, address) ==
    CASE directory = "yelp" -> checkYelp(outcome, businessName, address)
      [] directory = "foursquare" -> checkFoursquare(outcome, businessName, address)
      [] directory = "yellowPages" -> checkYellowPages(outcome, businessName, address)
      [] directory = "facebook" -> checkFacebook(outcome, businessName, address)
      [] directory = "whitepages" -> checkWhitepages(outcome, businessName, address)
      [] directory = "mapquest" -> checkMapQuest(outcome, businessName, address)
      [] directory = "openStreetMap" -> checkOpenStreetMap(outcome, businessName, address)

\* a || b || c on strings
FirstNonEmpty(a, b, c) == IF a # NoText THEN a ELSE IF b # NoText THEN b ELSE c

\* targetNAP of the callback of results.map
TargetNAP(checked, sourceNAP) ==
    NAPData(FirstNonEmpty(checked.name, sourceNAP.name, sourceNAP.name),
            FirstNonEmpty(checked.fullAddress, checked.displayName, sourceNAP.address),
            checked.phone)

\* the callback of results.map; the call of compareNAP normalizes both records
ProcessResult(checked, sourceNAP) ==
    IF ~checked.found THEN checked
    ELSE checked @@ NapFields(MatchResult(normalizeNAP(sourceNAP),
                                          normalizeNAP(TargetNAP(checked, sourceNAP))))

\* the business the citations are analysed for
SourceNAP == NAPData(SmithCo, ElmSt, NoText)

\* the results the checks can return for it
CheckedResults ==
    {checked \in {CheckResult(directory, outcome, SourceNAP.name, SourceNAP.address) :
                     directory \in Directories, outcome \in Outcomes}
                 \cup {checkYellowPagesDirect("found", SourceNAP.name, SourceNAP.address)} :
        ~IsThrown(checked)}

\* ProcessResult is a pure function of its arguments: this is the table of its
\* values on the calls analyzeCitations makes for SourceNAP
Processed ==
    [call \in CheckedResults \X {SourceNAP} |-> ProcessResult(call[1], call[2])] @@ <<>>

\* the call of the callback in results.map, looked up in the table
ProcessCall(checked, sourceNAP) == Processed[<<checked, sourceNAP>>]

\* filter(...).length, given for each element of the list whether it passes
CountTrue(passes) == Cardinality({i \in 1..Len(passes) : passes[i]})

\* itemBonus of one found listing
ItemBonus(listing) ==
    (IF listing.phone # NoText THEN 1 ELSE 0)
    + (IF listing.hours THEN 1 ELSE 0)
    + (IF listing.categories > 0 THEN 1 ELSE 0)
    + (IF listing.photos > 0 THEN 1 ELSE 0)
    + (IF listing.rating # 0 THEN 1 ELSE 0)

\* foundListings.reduce(...)
RECURSIVE CompletenessBonus(_)
CompletenessBonus(list) ==
    IF list = <<>> THEN Whole(0)
    ELSE Plus(CompletenessBonus(Tail(list)),
              IF Head(list).found THEN Ratio(ItemBonus(Head(list)), 5) ELSE Whole(0))

totalSources == 7

\* the scoring at the end of analyzeCitations, on the processed results
CitationScores(processed) ==
    LET totalFound == CountTrue([i \in 1..Len(processed) |-> processed[i].found])
        consistentCount ==
            CountTrue([i \in 1..Len(processed) |->
                          processed[i].found /\ IsConsistent(processed[i])])
        napConsistency ==
            IF totalFound > 0
            THEN MathRound(Times(Divide(Whole(consistentCount), Whole(totalFound)), Whole(100)))
            ELSE Whole(0)
        presenceScore == Times(Divide(Whole(totalFound), Whole(totalSources)), Whole(50))
        consistencyScore == Times(Divide(napConsistency, Whole(100)), Whole(30))
        completenessScore ==
            MathMin(Whole(20),
                    Times(Divide(CompletenessBonus(processed), Whole(totalFound)), Whole(20)))
    IN  [citationScore  |-> MathRound(Plus(Plus(presenceScore, consistencyScore),
                                           completenessScore)),
         napConsistency |-> napConsistency,
         foundCount     |-> totalFound]

\* new Response(JSON.stringify(body), { status })
HttpResponse(status, body) == [status |-> status, body |-> body]

\* analyzeCitations is called by the router: the seven requests go out
AnalyzeCitations ==
    /\ pc = "input"
    /\ results' = [directory \in Directories |-> Pending]
    /\ pc' = "await"
    /\ UNCHANGED <<source, result, retries, delay, log, compareVars>>

\* the request of a check other than checkYellowPages ends
CheckSettles(directory, outcome) ==
    /\ pc = "await"
    /\ directory # "yellowPages"
    /\ results[directory] = Pending
    /\ results' = [results EXCEPT ![directory] =
                       Settled(outcome, CheckResult(directory, outcome, source.name, source.address))]
    /\ UNCHANGED <<source, result, pc, retries, delay, log, compareVars>>

Fallback == [status |-> "fallback"]

\* checkYellowPages: the direct request ends; anything but a business page
\* leads to the search
YellowPagesDirect(outcome) ==
    /\ pc = "await"
    /\ results["yellowPages"] = Pending
    /\ results' = [results EXCEPT !["yellowPages"] =
                       IF outcome = "found"
                       THEN Settled(outcome, checkYellowPagesDirect(outcome, source.name, source.address))
                       ELSE Fallback]
    /\ UNCHANGED <<source, result, pc, retries, delay, log, compareVars>>

\* checkYellowPages: the search ends
YellowPagesFallback(outcome) ==
    /\ pc = "await"
    /\ results["yellowPages"] = Fallback
    /\ results' = [results EXCEPT !["yellowPages"] =
                       Settled(outcome, CheckResult("yellowPages", outcome, source.name, source.address))]
    /\ UNCHANGED <<source, result, pc, retries, delay, log, compareVars>>

\* the object analyzeCitations returns: the processed results under the names of
\* their directories, and the scores
CitationAnalysis(processed) ==
    [directory \in Directories |->
        processed[CHOOSE i \in 1..Len(DirectoryOrder) : DirectoryOrder[i] = directory]]
    @@ CitationScores(processed)

\* Promise.all settles; the results are processed and scored, and the router
\* answers (processed is the one list results.map returns)
ProcessResults ==
    /\ pc = "await"
    /\ \A directory \in Directories : results[directory].status \in {"fulfilled", "rejected"}
    /\ IF \E directory \in Directories : results[directory].status = "rejected"
       THEN result' = HttpResponse(500, [error |-> "check failed"])
       ELSE \E processed \in {[i \in 1..Len(DirectoryOrder) |->
                                  ProcessCall(results[DirectoryOrder[i]].value,
                                              NAPData(source.name, source.address, NoText))]
                              @@ <<>>} :
                result' = HttpResponse(200, CitationAnalysis(processed))
    /\ pc' = "done"
    /\ UNCHANGED <<source, results, retries, delay, log, compareVars>>

InitCitations ==
    /\ source = NAPData(SmithCo, ElmSt, Undefined)
    /\ target = NoValue
    /\ normSource = NoValue
    /\ normTarget = NoValue
    /\ result = NoValue
    /\ pc = "input"
    /\ script = <<>>
    /\ step = 0
    /\ calls = <<>>
    /\ NoService

NextCitations ==
    \/ AnalyzeCitations
    \/ \E directory \in Directories, outcome \in Outcomes : CheckSettles(directory, outcome)
    \/ \E outcome \in Outcomes : YellowPagesDirect(outcome)
    \/ \E outcome \in Outcomes : YellowPagesFallback(outcome)
    \/ ProcessResults

SpecCitations == InitCitations /\ [][NextCitations]_vars

-----------------------------------------------------------------------------
(* calculateLocalSEOScore on reports.                                      *)

\* { error: ... } in place of a section
FailedSection == [error |-> "failed"]

HasError(section) == "error" \in DOMAIN section

Ratings == {Whole(0), Ratio(7, 2), Ratio(9, 2), Whole(5)}

ReviewCounts == {0, 25, 50, 75, 150, 200, 500}

GbpSections ==
    {FailedSection}
    \cup [rating : Ratings, reviewCount : ReviewCounts, name : {"", "Smith Co."}]

platforms == <<"yelp", "foursquare", "yellowPages">>

\* an entry carries the flags found and napMatch
CitationSections ==
    {FailedSection}
    \cup [{platforms[i] : i \in 1..Len(platforms)} -> [found : BOOLEAN, napMatch : BOOLEAN]]

OnPageSection(titleTag, cityInTitle, metaDescription, h1Content, schema, address, phone) ==
    [titleTag |-> titleTag, cityInTitle |-> cityInTitle, metaDescription |-> metaDescription,
     h1Content |-> h1Content, hasLocalBusinessSchema |-> schema,
     addressFound |-> address, phoneNumberFound |-> phone]

\* metaDescription is the length of the trimmed description
OnPageSections ==
    {FailedSection,
     OnPageSection(TRUE, TRUE, 120, TRUE, TRUE, TRUE, TRUE),
     OnPageSection(TRUE, FALSE, 50, FALSE, TRUE, FALSE, TRUE),
     OnPageSection(FALSE, TRUE, 0, FALSE, FALSE, FALSE, FALSE)}

Reports ==
    [gbpAnalysis : GbpSections, citationAnalysis : CitationSections,
     onPageAnalysis : OnPageSections]

\* section 1
gbpScore(gbp) ==
    IF HasError(gbp) THEN Whole(0)
    ELSE LET ratingScore ==
                 IF gbp.rating # Whole(0) THEN Times(Divide(gbp.rating, Whole(5)), Whole(40))
                 ELSE Whole(0)
             count == gbp.reviewCount
             reviewScore ==
                 IF count = 0 THEN Whole(0)
                 ELSE IF count >= 200 THEN Whole(40)
                 ELSE IF count >= 100
                      THEN Plus(Whole(30), Times(Ratio(count - 100, 100), Whole(10)))
                 ELSE IF count >= 50
                      THEN Plus(Whole(20), Times(Ratio(count - 50, 50), Whole(10)))
                 ELSE Times(Ratio(count, 50), Whole(20))
         IN  Plus(Plus(ratingScore, reviewScore), IF gbp.name # "" THEN Whole(20) ELSE Whole(0))

\* section 2: napMatches counts among the found platforms only
citationPresenceScore(citations) ==
    IF HasError(citations) THEN Whole(0)
    ELSE LET found == CountTrue([i \in 1..Len(platforms) |-> citations[platforms[i]].found])
             napMatches ==
                 CountTrue([i \in 1..Len(platforms) |->
                               citations[platforms[i]].found /\ citations[platforms[i]].napMatch])
         IN  Plus(Times(Ratio(found, Len(platforms)), Whole(60)),
                  IF found > 0 THEN Times(Ratio(napMatches, found), Whole(40)) ELSE Whole(0))

\* section 3
onPageScore(onPage) ==
    IF HasError(onPage) THEN Whole(0)
    ELSE Whole((IF onPage.titleTag THEN 15 + (IF onPage.cityInTitle THEN 10 ELSE 0) ELSE 0)
               + (IF onPage.metaDescription > 50 THEN 15 ELSE 0)
               + (IF onPage.h1Content THEN 15 ELSE 0)
               + (IF onPage.hasLocalBusinessSchema THEN 25 ELSE 0)
               + (IF onPage.addressFound THEN 10 ELSE 0)
               + (IF onPage.phoneNumberFound THEN 10 ELSE 0))

\* section 4: matched counts every platform with napMatch
napScore(citations) ==
    IF HasError(citations) THEN Whole(0)
    ELSE LET found == CountTrue([i \in 1..Len(platforms) |-> citations[platforms[i]].found])
             matched == CountTrue([i \in 1..Len(platforms) |-> citations[platforms[i]].napMatch])
         IN  IF found > 0 THEN Times(Ratio(matched, found), Whole(100)) ELSE Whole(0)

weights ==
    [gbpOptimization |-> Ratio(30, 100), citationPresence |-> Ratio(25, 100),
     onPageSEO |-> Ratio(30, 100), napConsistency |-> Ratio(15, 100)]

maxScore == 100

calculateLocalSEOScore(report) ==
    LET scores == [gbpOptimization  |-> gbpScore(report.gbpAnalysis),
                   citationPresence |-> citationPresenceScore(report.citationAnalysis),
                   onPageSEO        |-> onPageScore(report.onPageAnalysis),
                   napConsistency   |-> napScore(report.citationAnalysis)]
        Weighted(category) ==
            Times(Times(Divide(scores[category], Whole(maxScore)), Whole(100)), weights[category])
        weightedScore ==
            Plus(Plus(Plus(Weighted("gbpOptimization"), Weighted("citationPresence")),
                      Weighted("onPageSEO")), Weighted("napConsistency"))
    IN  [overall    |-> MathRound(weightedScore),
         categories |-> [category \in DOMAIN scores |->
                            [score |-> MathRound(scores[category]), maxScore |-> maxScore,
                             weight |-> weights[category]]]]

CalculateLocalSEOScore ==
    /\ pc = "input"
    /\ result' = calculateLocalSEOScore(source)
    /\ pc' = "done"
    /\ UNCHANGED <<source, serviceVars, compareVars>>

InitScore ==
    /\ source \in Reports
    /\ target = NoValue
    /\ normSource = NoValue
    /\ normTarget = NoValue
    /\ result = NoValue
    /\ pc = "input"
    /\ script = <<>>
    /\ step = 0
    /\ calls = <<>>
    /\ NoService

NextScore == CalculateLocalSEOScore

SpecScore == InitScore /\ [][NextScore]_vars

-----------------------------------------------------------------------------
(* The get-analysis handler: the checks it makes before the analysis.      *)

Methods == {"GET", "POST", "PUT"}

\* the values of the field type; "" stands for a missing field
RequestTypes == {"", "gbp", "citations", "onPage", "speed", "reviews"}

\* a request and the environment it meets: whether GOOGLE_PLACES_API_KEY is
\* set, whether the body is JSON, and the fields of the body ("" if missing)
Requests ==
    [method : Methods, googlePlacesApiKey : BOOLEAN, json : BOOLEAN,
     businessName : {"", "Smith Co."}, fullAddress : {"", "1 Elm St, Ada, TX 75001"},
     websiteUrl : {"", "https://smith.example"}, type : RequestTypes]

\* variant: websiteUrl is required only by the analyses that fetch the site
MissingRequiredFieldsForType(body) ==
    \/ body.businessName = ""
    \/ body.fullAddress = ""
    \/ body.type = ""
    \/ body.websiteUrl = "" /\ body.type \in {"onPage", "speed"}

\* !businessName || !fullAddress || !websiteUrl || !type
MissingRequiredFields(body) ==
    \/ body.businessName = ""
    \/ body.fullAddress = ""
    \/ body.websiteUrl = ""
    \/ body.type = ""

\* the cases of the router's switch
KnownTypes == {"gbp", "citations", "onPage", "speed"}

\* the handler from its first line to its response; analysis is how the
\* analysis the router calls ends
Handler(analysis) ==
    /\ pc = "input"
    /\ IF source.method # "POST"
       THEN /\ result' = HttpResponse(405, [error |-> "Method not allowed"])
            /\ log' = <<>>
       ELSE IF ~source.googlePlacesApiKey
       THEN /\ result' = HttpResponse(500, [error |-> "Google Places API key missing"])
            /\ log' = <<>>
       ELSE IF ~source.json
       THEN /\ result' = Error("Unexpected token in JSON")
            /\ log' = <<Entry("request.json", 0)>>
       ELSE IF MissingRequiredFields(source)
       THEN /\ result' = HttpResponse(400, [error |-> "Missing required fields"])
            /\ log' = <<Entry("request.json", 0)>>
       ELSE IF source.type \notin KnownTypes
       THEN /\ result' = HttpResponse(500, [error |-> "Unknown type: " \o source.type])
            /\ log' = <<Entry("request.json", 0)>>
       ELSE /\ result' = IF analysis = "returns"
                         THEN HttpResponse(200, [analysis |-> source.type])
                         ELSE HttpResponse(500, [error |-> "analysis failed"])
            /\ log' = <<Entry("request.json", 0), Entry("fetch", 0)>>
    /\ pc' = "done"
    /\ UNCHANGED <<source, results, retries, delay, compareVars>>

InitHandler ==
    /\ source \in Requests
    /\ target = NoValue
    /\ normSource = NoValue
    /\ normTarget = NoValue
    /\ result = NoValue
    /\ pc = "input"
    /\ script = <<>>
    /\ step = 0
    /\ calls = <<>>
    /\ NoService

NextHandler == \E analysis \in {"returns", "throws"} : Handler(analysis)

SpecHandler == InitHandler /\ [][NextHandler]_vars

-----------------------------------------------------------------------------
(* The claims.                                                             *)

Done == pc = "done"

\* C1: scenario 1, compareNAP(userBusiness, yelpBusiness), returns nameMatch,
\* addressMatch, phoneMatch and overallMatch all true and confidence 100.
C1_Scenario1FullMatch ==
    (Done /\ source = userBusiness /\ target = yelpBusiness) =>
        /\ result.nameMatch
        /\ result.addressMatch
        /\ result.phoneMatch
        /\ result.overallMatch
        /\ result.confidence = 100

\* C2: two addresses that differ only in the form of their dictionary words
\* (long, short, short with a period) or in punctuation have the same
\* normalizeAddress output, whatever words precede or follow.
C2_SameAddressInAnyStyle ==
    Done => normSource.address = normTarget.address

\* C3: two addresses that differ only in their unit (any designator and unit
\* number, or none) have the same normalizeAddress output, for the whole
\* address and for the street: the unit is removed entirely.
C3_SameAddressWithAnyUnit ==
    Done => /\ normSource.address = normTarget.address
            /\ normSource.street = normTarget.street

IsNonEmptyString(field) == field # <<>> /\ field # Undefined

\* C4: a record whose name, address and phone are non-empty strings, compared
\* with itself, gives overallMatch = true and confidence >= 90.
C4_SelfCompareMatches ==
    (/\ Done
     /\ source = target
     /\ IsNonEmptyString(source.name)
     /\ IsNonEmptyString(source.address)
     /\ IsNonEmptyString(source.phone)) =>
        result.overallMatch /\ result.confidence >= 90

C4_Witness ==
    /\ Done
    /\ source = target
    /\ source.name = SmithCo
    /\ source.address = ElmStOnly
    /\ source.phone = Phone9999
    /\ result.overallMatch
    /\ result.confidence = 100

\* how many digits the typed phone holds
TypedDigits == Len(KeepOnly(PhoneText(source.phone), DigitClass))

\* C5 as stated: normalizePhone returns the empty string or exactly 10 digits.
C5_EmptyOrTenDigits ==
    Done => Len(normSource.phone) \in {0, PhoneDigits}

\* C5 as amended: normalizePhone returns digits only, at most 10 of them:
\* exactly 10 when the input holds 10 digits or more, and otherwise as many as
\* the input holds (fewer than 10, possibly none).
C5_AtMostTenDigits ==
    Done =>
        /\ \A i \in 1..Len(normSource.phone) : normSource.phone[i] \in DigitClass
        /\ Len(normSource.phone) <= PhoneDigits
        /\ TypedDigits >= PhoneDigits => Len(normSource.phone) = PhoneDigits
        /\ TypedDigits < PhoneDigits => Len(normSource.phone) = TypedDigits

C5_Witness ==
    /\ Done
    /\ TypedDigits = 7
    /\ Len(source.phone) = 7 + MaxPunctuation
    /\ Len(normSource.phone) = 7

\* C6: every rendering of a 10-digit number that adds only punctuation and,
\* optionally, a leading "1" or "+1" is normalized to the 10 digits.
C6_RenderingsGiveTheNumber ==
    (/\ Done
     /\ source.phone # Undefined
     /\ step = Len(script)
     /\ script \in {target.phone, <<"1">> \o target.phone}) =>
        normSource.phone = target.phone

C6_Witness ==
    /\ Done
    /\ step = Len(script)
    /\ script = <<"1">> \o target.phone
    /\ source.phone[1] = "+"
    /\ Len(source.phone) = Len(script) + MaxPunctuation
    /\ normSource.phone = target.phone

ExactlyOneBlankAddress == (source.address = <<>>) # (target.address = <<>>)

\* C7 as stated: when exactly one of the two records has a blank address,
\* addressMatch is false.
C7_OneBlankAddressNeverMatches ==
    (Done /\ ExactlyOneBlankAddress) => ~result.addressMatch

\* C7 as amended: when exactly one of the two records has a blank address,
\* addressMatch is false if the other address has a city (a second
\* comma-separated segment holding a letter) and true if it has none.
C7_OneBlankAddressMatchesNoCity ==
    (Done /\ ExactlyOneBlankAddress) =>
        LET other == IF source.address = <<>> THEN normTarget ELSE normSource
        IN  result.addressMatch <=> other.city = <<>>

C7_Witness ==
    /\ Done
    /\ source.address = NoAddress
    /\ target.address = ElmSt
    /\ normTarget.city # <<>>
    /\ ~result.addressMatch

\* C8: scenario 2, compareNAP(userBusiness, wrongBusiness), returns
\* nameMatch = false, overallMatch = false and confidence = 50: the 50 of the
\* matching address and nothing for the differing phone.
C8_Scenario2AddressOnly ==
    (Done /\ source = userBusiness /\ target = wrongBusiness) =>
        /\ ~result.nameMatch
        /\ ~result.overallMatch
        /\ result.confidence = 50
        /\ result.addressMatch
        /\ ~result.phoneMatch

C8_Witness ==
    /\ Done
    /\ source = userBusiness
    /\ target = wrongBusiness
    /\ result.addressMatch
    /\ result.confidence = 50

\* C9: "The LLC" normalizes to the empty name; when either normalized name is
\* empty nameMatch is true whatever the other name is, so overallMatch is true
\* whenever the addresses match.
C9_EmptyNameMatchesAnything ==
    Done =>
        /\ source.name = TheLLC => normSource.name = <<>>
        /\ (normSource.name = <<>> \/ normTarget.name = <<>>) =>
              /\ result.nameMatch
              /\ result.addressMatch => result.overallMatch

C9_Witness ==
    /\ Done
    /\ source.name = TheLLC
    /\ normTarget.name # <<>>
    /\ normSource.address # normTarget.address
    /\ result.overallMatch

\* needle is a contiguous part of hay
IsSubstring(hay, needle) ==
    \E i \in 0..(Len(hay) - Len(needle)) : SubSeq(hay, i + 1, i + Len(needle)) = needle

\* C10: nameMatch is true exactly when one normalized name is a substring of
\* the other or their Levenshtein similarity is strictly greater than 0.8; two
\* names of similarity exactly 0.8, neither within the other, do not match.
C10_NameMatchRule ==
    Done =>
        LET a == normSource.name
            b == normTarget.name
            sim == levenshteinSimilarity(a, b)
        IN  result.nameMatch <=>
                (IsSubstring(a, b) \/ IsSubstring(b, a) \/ 10 * sim.num > 8 * sim.den)

C10_Witness ==
    /\ Done
    /\ source.name = SmithCo
    /\ target.name = Smyth
    /\ Len(normSource.name) = 5
    /\ levenshteinDistance(normSource.name, normTarget.name) = 1
    /\ ~result.nameMatch

\* the normalized streets are equal or one contains the other
StreetsAgree == \/ normSource.street = normTarget.street
                \/ IsSubstring(normSource.street, normTarget.street)
                \/ IsSubstring(normTarget.street, normSource.street)

\* the normalized cities are exactly equal
CitiesAgree == normSource.city = normTarget.city

\* the ZIPs are exactly equal or at least one ZIP is empty
ZipsAgree == \/ normSource.zip = normTarget.zip
             \/ normSource.zip = <<>>
             \/ normTarget.zip = <<>>

\* C11: addressMatch is true exactly when the normalized streets are equal or
\* one contains the other, the normalized cities are exactly equal, and the
\* ZIPs are exactly equal or at least one ZIP is empty.
C11_AddressMatchRule ==
    Done => (result.addressMatch <=> (StreetsAgree /\ CitiesAgree /\ ZipsAgree))

C11_Witness ==
    /\ Done
    /\ source.address = ElmSt
    /\ target.address = ElmStNoZip
    /\ normSource.zip # <<>>
    /\ normTarget.zip = <<>>
    /\ normTarget.city # <<>>
    /\ result.addressMatch

\* both normalized phones are non-empty
BothPhonesPresent == normSource.phone # <<>> /\ normTarget.phone # <<>>

\* C12: confidence is 40 for a name match plus 50 for an address match plus 10
\* when both normalized phones are non-empty and equal; phoneMatch is true when
\* the phones are equal or either is empty; when at least one normalized phone
\* is empty the confidence is at most 90.
C12_ConfidenceRule ==
    Done =>
        /\ result.confidence =
              (IF result.nameMatch THEN 40 ELSE 0)
              + (IF result.addressMatch THEN 50 ELSE 0)
              + (IF BothPhonesPresent /\ normSource.phone = normTarget.phone THEN 10 ELSE 0)
        /\ result.phoneMatch <=> (normSource.phone = normTarget.phone \/ ~BothPhonesPresent)
        /\ ~BothPhonesPresent => result.confidence <= 90

C12_Witness ==
    /\ Done
    /\ source.phone = Undefined
    /\ normTarget.phone # <<>>
    /\ result.nameMatch
    /\ result.addressMatch
    /\ result.phoneMatch
    /\ result.confidence = 90

\* C13: overallMatch equals nameMatch and addressMatch; replacing the phone of
\* either record by any other phone gives the same overallMatch.
C13_OverallMatchIgnoresPhone ==
    Done =>
        /\ result.overallMatch <=> (result.nameMatch /\ result.addressMatch)
        /\ \A p \in Phones :
              /\ overallMatch(NormalizeCall([source EXCEPT !.phone = p]), normTarget)
                    = result.overallMatch
              /\ overallMatch(normSource, NormalizeCall([target EXCEPT !.phone = p]))
                    = result.overallMatch

C13_Witness ==
    /\ Done
    /\ normSource.phone # <<>>
    /\ normTarget.phone # <<>>
    /\ normSource.phone # normTarget.phone
    /\ ~result.phoneMatch
    /\ result.overallMatch

\* C14: nameScore is 100 for a name match and 100 times the similarity
\* otherwise; addressScore is 100 for an address match and otherwise 50 for a
\* street match plus 50 for a city match; phoneScore is 100 for a phone match
\* and 0 otherwise.  With street and city matching and two different non-empty
\* ZIPs, addressMatch is false and addressScore is 100.
C14_DetailsBreakdown ==
    Done =>
        LET sim == levenshteinSimilarity(normSource.name, normTarget.name)
            nameScore == result.details.nameScore
        IN  /\ IF result.nameMatch
               THEN nameScore.num = 100 * nameScore.den
               ELSE nameScore.num * sim.den = 100 * sim.num * nameScore.den
            /\ result.details.addressScore =
                  IF result.addressMatch THEN 100
                  ELSE (IF StreetsAgree THEN 50 ELSE 0) + (IF CitiesAgree THEN 50 ELSE 0)
            /\ result.details.phoneScore = IF result.phoneMatch THEN 100 ELSE 0
            /\ (StreetsAgree /\ CitiesAgree /\ ~ZipsAgree) =>
                  ~result.addressMatch /\ result.details.addressScore = 100

C14_Witness ==
    /\ Done
    /\ source.address = ElmSt
    /\ target.address = ElmStOtherZip
    /\ normSource.zip # <<>>
    /\ normTarget.zip # <<>>
    /\ normSource.zip # normTarget.zip
    /\ ~result.addressMatch
    /\ result.details.addressScore = 100

\* C20: when the normalized streets of the two records are exactly equal,
\* compareNAP(a, b).addressMatch equals compareNAP(b, a).addressMatch.
C20_AddressMatchSymmetric ==
    (Done /\ normSource.street = normTarget.street) =>
        result.addressMatch = MatchResult(NormalizeCall(target), NormalizeCall(source)).addressMatch

C20_Witness ==
    /\ Done
    /\ source.address = ElmStNoZip
    /\ target.address = ElmSt
    /\ normSource.street = normTarget.street
    /\ normSource.zip # normTarget.zip
    /\ result.addressMatch

RECURSIVE EditDistance(_, _)

\* the edit distance by its definition: the least number of insertions,
\* deletions and substitutions of one character that turn a into b
EditDistance(a, b) ==
    IF a = <<>> THEN Len(b)
    ELSE IF b = <<>> THEN Len(a)
    ELSE Min3(EditDistance(Tail(a), b) + 1,
              EditDistance(a, Tail(b)) + 1,
              EditDistance(Tail(a), Tail(b)) + (IF Head(a) = Head(b) THEN 0 ELSE 1))

LongerLength(a, b) == IF Len(a) > Len(b) THEN Len(a) ELSE Len(b)

\* C15: levenshteinSimilarity(a, b) is 1 - d(a, b) / max(len a, len b) with d
\* the standard edit distance, which levenshteinDistance computes; it is 1
\* for two empty strings and always lies between 0 and 1.
C15_SimilarityIsOneMinusRelativeDistance ==
    Done =>
        LET d == EditDistance(source, target)
            m == LongerLength(source, target)
        IN  /\ levenshteinDistance(source, target) = d
            /\ levenshteinDistance(target, source) = d
            /\ result.den > 0
            /\ IF m = 0 THEN result.num = result.den
                        ELSE result.num * m = (m - d) * result.den
            /\ 0 <= result.num
            /\ result.num <= result.den

C15_Witness ==
    /\ Done
    /\ source = <<"y", "y">>
    /\ target = <<"x", "x", "y">>
    /\ EditDistance(source, target) = 2
    /\ 3 * result.num = result.den

\* C16: for every input name, normalizeName returns a string made only of the
\* characters a-z and 0-9 that is at most as long as the input.
C16_NameIsShortLowerAlnum ==
    Done =>
        /\ \A i \in 1..Len(result) : result[i] \in LowerAlnumClass
        /\ Len(result) <= Len(source)

C16_Witness ==
    /\ Done
    /\ source = <<"T","h","e"," ",CapitalIDot,"x","1">>
    /\ Len(toLowerCase(source)) > Len(source)
    /\ result = <<"i","x","1">>

\* C17: for every address string a, normalizeAddress(a) equals
\* normalizeAddress(a.toUpperCase()).
C17_CaseInvariant ==
    Done => normSource = normTarget

\* s is a string of characters of class only
OnlyOf(s, class) == \A i \in 1..Len(s) : s[i] \in class

\* norm is a complete normalized record of nap: every field is a string of its
\* kind, and every address component nap.address lacks is the empty string
IsNormalizedOf(norm, nap) ==
    /\ ~IsThrown(norm)
    /\ DOMAIN norm = {"name", "address", "phone", "street", "city", "state", "zip"}
    /\ OnlyOf(norm.name, LowerAlnumClass)
    /\ OnlyOf(norm.address, LowerAlnumClass)
    /\ OnlyOf(norm.phone, DigitClass)
    /\ OnlyOf(norm.street, LowerAlnumClass)
    /\ OnlyOf(norm.city, LowerClass)
    /\ OnlyOf(norm.state, UpperClass)
    /\ OnlyOf(norm.zip, DigitClass)
    /\ nap.phone = Undefined => norm.phone = <<>>
    /\ LET commas == Len(KeepOnly(nap.address, {","}))
       IN  /\ nap.address = <<>> => norm.street = <<>>
           /\ commas < 1 => norm.city = <<>>
           /\ commas < 2 => (norm.state = <<>> /\ norm.zip = <<>>)

\* r is a complete result object
IsMatchResult(r) ==
    /\ ~IsThrown(r)
    /\ DOMAIN r = {"nameMatch", "addressMatch", "phoneMatch", "overallMatch",
                   "confidence", "details"}
    /\ r.nameMatch \in BOOLEAN
    /\ r.addressMatch \in BOOLEAN
    /\ r.phoneMatch \in BOOLEAN
    /\ r.overallMatch \in BOOLEAN
    /\ r.confidence \in 0..100
    /\ DOMAIN r.details = {"nameScore", "addressScore", "phoneScore"}
    /\ r.details.nameScore.den > 0
    /\ r.details.nameScore.num >= 0
    /\ r.details.nameScore.num <= 100 * r.details.nameScore.den
    /\ r.details.addressScore \in {0, 50, 100}
    /\ r.details.phoneScore \in {0, 100}

\* C18: normalizeNAP and compareNAP never throw: for any name, any address
\* (empty, without commas, malformed) and a phone that is a string or
\* undefined they return a fully populated result in which every missing
\* address component is the empty string.
C18_NeverThrows ==
    Done =>
        /\ IsNormalizedOf(normSource, source)
        /\ IsNormalizedOf(normTarget, target)
        /\ IsMatchResult(result)

C18_Witness ==
    /\ Done
    /\ source.phone = Undefined
    /\ source.address = <<",", "7","5","0","0","1", ",", " ">>
    /\ IsNormalizedOf(normSource, source)
    /\ normSource.street = <<>>
    /\ normSource.zip = <<>>
    /\ IsMatchResult(result)

\* a and b are the same number
SameRatio(a, b) == a.num * b.den = b.num * a.den

\* C29: every field of compareNAP(a, b) equals the same field of
\* compareNAP(b, a), also when the match comes from a containment branch.
C29_FullySymmetric ==
    Done =>
        LET swapped == MatchResult(normTarget, normSource)
        IN  /\ result.nameMatch = swapped.nameMatch
            /\ result.addressMatch = swapped.addressMatch
            /\ result.phoneMatch = swapped.phoneMatch
            /\ result.overallMatch = swapped.overallMatch
            /\ result.confidence = swapped.confidence
            /\ SameRatio(result.details.nameScore, swapped.details.nameScore)
            /\ result.details.addressScore = swapped.details.addressScore
            /\ result.details.phoneScore = swapped.details.phoneScore

C29_Witness ==
    /\ Done
    /\ source.name = TheSmithy
    /\ target.name = SmithCo
    /\ Len(normSource.name) > Len(normTarget.name)
    /\ IsSubstring(normSource.name, normTarget.name)
    /\ source.address = ElmStreetUnit
    /\ target.address = ElmSt
    /\ normSource.street # normTarget.street
    /\ result.overallMatch

\* C30: confidence is one of 0, 10, 40, 50, 60, 90, 100 and overallMatch is
\* true exactly when confidence >= 90, so the test of analyzeCitations on
\* napMatch and napConfidence holds exactly when napMatch is true.
C30_ConfidenceValues ==
    Done =>
        /\ result.confidence \in {0, 10, 40, 50, 60, 90, 100}
        /\ result.overallMatch <=> result.confidence >= 90
        /\ IsConsistent(NapFields(result)) <=> NapFields(result).napMatch

C30_Witness ==
    /\ Done
    /\ result.confidence = 60
    /\ ~result.overallMatch
    /\ ~IsConsistent(NapFields(result))

\* the text after the second comma
ThirdSegment(address) == SubSeq(address, Len(StateZipPrefix) + 1, Len(address))

TexasZip == <<"T","X"," ","7","8","7","5","9">>

TexasZipPlusFour == <<"T","X"," ","7","8","7","5","9","-","1","2","3","4">>

\* C22: segment 0 is the street and segment 1 the city; a third segment
\* "TX 78759" gives state "TX" and zip "78759", "TX 78759-1234" gives zip
\* "787591234"; for any third segment the state is empty or two uppercase
\* letters and the zip is empty or 5 or 9 digits.
C22_StateAndZip ==
    Done =>
        /\ ~IsThrown(normSource)
        /\ normSource.street = <<"9","o","a","k">>
        /\ normSource.city = <<"a","d","a">>
        /\ trim(ThirdSegment(source.address)) = TexasZip =>
               normSource.state = <<"T","X">> /\ normSource.zip = <<"7","8","7","5","9">>
        /\ trim(ThirdSegment(source.address)) = TexasZipPlusFour =>
               /\ normSource.state = <<"T","X">>
               /\ normSource.zip = <<"7","8","7","5","9","1","2","3","4">>
        /\ \/ normSource.state = <<>>
           \/ Len(normSource.state) = 2 /\ OnlyOf(normSource.state, UpperClass)
        /\ Len(normSource.zip) \in {0, 5, 9}
        /\ OnlyOf(normSource.zip, DigitClass)

C22_Witness ==
    /\ Done
    /\ ThirdSegment(source.address) = TexasZipPlusFour
    /\ normSource.zip = <<"7","8","7","5","9","1","2","3","4">>

\* the entries of the log of one kind, in order
EntriesOf(kind) == SelectSeq(log, LAMBDA e : e.kind = kind)

WaitsMade == [i \in 1..Len(EntriesOf("wait")) |-> EntriesOf("wait")[i].value]

\* the entry is a response with this status
IsResponse(entry, status) == entry.kind = "response" /\ entry.value = status

GeminiSafe ==
    /\ Len(EntriesOf("request")) <= 4
    /\ WaitsMade = SubSeq(<<1000, 2000, 4000>>, 1, Len(WaitsMade))
    /\ \A i \in 1..Len(log) :
           /\ log[i].kind = "wait" => IsResponse(log[i - 1], 429)
           /\ log[i].kind = "request" /\ i > 1 => log[i - 1].kind = "wait"
           /\ IsResponse(log[i], 429) /\ i < Len(log) =>
                  log[i + 1].kind = "wait"
    /\ Done =>
           LET last == log[Len(log)]
           IN  /\ last.kind = "response" /\ last.value # 200 => IsThrown(result)
               /\ IsResponse(last, 429) => Len(EntriesOf("request")) = 4
               /\ ~IsThrown(result) => IsResponse(last, 200)

\* C23: callGeminiApi retries only on status 429 with retries left: at most
\* 4 requests, waits of 1000, 2000, 4000 ms before the retries, an error on
\* any other non-OK status or on a 429 with no retries left, and every call
\* ends.
C23_RetriesOnlyOn429 == [](GeminiSafe) /\ <>(Done)

C23_Witness ==
    /\ Done
    /\ Len(EntriesOf("request")) = 4
    /\ WaitsMade = <<1000, 2000, 4000>>
    /\ IsResponse(log[Len(log)], 429)
    /\ IsThrown(result)

\* the request of this type was answered with a JSON body of an OK response
Succeeded(type) == IsOk(results[type].response) /\ results[type].response.json

\* C25: generateRealReport always resolves with a report: a failed section is
\* an {error: message} object, a successful one the data returned, and a
\* failure to get a user id or to save does not keep the report back.
C25_ReportAlwaysReturned ==
    /\ ~Done => ENABLED NextReport
    /\ Done =>
           /\ ~IsThrown(result)
           /\ DOMAIN result = {ReportField[type] : type \in AnalysisTypes}
           /\ \A type \in AnalysisTypes :
                  LET section == result[ReportField[type]]
                  IN  IF Succeeded(type)
                      THEN section = [data |-> results[type].response.data]
                      ELSE DOMAIN section = {"error"} /\ section.error # ""

C25_Witness ==
    /\ Done
    /\ log[Len(log)] = Entry("save", "save failed")
    /\ results["gbp"].response = FetchRejected
    /\ results["speed"].response.status = 504
    /\ Succeeded("citations")
    /\ ~IsThrown(result)

\* C26: when the serverless function answers with a non-OK status and a JSON
\* body {error: msg}, the section's error is msg.
C26_ServerMessageReported ==
    Done =>
        \A type \in AnalysisTypes :
            LET response == results[type].response
            IN  ~IsOk(response) /\ response # FetchRejected /\ response.json /\ response.error # ""
                    => result[ReportField[type]] = [error |-> response.error]

\* C21: for every combination of outcomes of the seven checks, a check that
\* did not find a listing yields found = false for its own directory, every
\* directory's result is reported as its check returned it, and the request
\* is answered with a result.
C21_ChecksIsolated ==
    Done =>
        /\ result.status = 200
        /\ \A directory \in Directories :
               LET settled == results[directory]
                   reported == result.body[directory]
               IN  /\ settled.status = "fulfilled"
                   /\ reported.found <=> settled.response = "found"
                   /\ \A field \in DOMAIN settled.value : reported[field] = settled.value[field]

C21_Witness ==
    /\ Done
    /\ result.status = 200
    /\ results["yelp"].response = "timeout"
    /\ results["foursquare"].response = "network error"
    /\ results["yellowPages"].response = "non-OK"
    /\ results["facebook"].response = "no result"
    /\ results["mapquest"].response = "found"
    /\ result.body["mapquest"].found
    /\ ~result.body["yelp"].found

\* the number is an integer between the two
IsIntegerBetween(number, low, high) ==
    /\ IsFinite(number)
    /\ number.num % number.den = 0
    /\ low * number.den <= number.num
    /\ number.num <= high * number.den

\* C24: citationScore is always an integer between 0 and 100, also when no
\* directory finds the business.
C24_CitationScoreInRange ==
    Done => IsIntegerBetween(result.body.citationScore, 0, 100)

\* C27: the overall score is in 0..100 and every category score in
\* 0..maxScore, for every report with a rating in 0..5 and a non-negative
\* reviewCount, whatever found/napMatch flags the citation entries carry.
C27_ScoresInRange ==
    Done =>
        /\ IsIntegerBetween(result.overall, 0, 100)
        /\ \A category \in DOMAIN result.categories :
               IsIntegerBetween(result.categories[category].score, 0,
                                result.categories[category].maxScore)

\* the handler did this
Did(kind) == \E i \in 1..Len(log) : log[i].kind = kind

AllFieldsPresent ==
    /\ source.businessName # ""
    /\ source.fullAddress # ""
    /\ source.websiteUrl # ""
    /\ source.type # ""

=============================================================================
